---- MODULE Spec2Model ----
(***************************************************************************)
(* Verification model of the voice-clone backend's two scorers             *)
(* (services/detection.py, VoiceCloneService.calculate_confidence_score)   *)
(* and of the request handlers that persist their results.                 *)
(*                                                                         *)
(* Texts are TLA+ strings, handled character by character with Len, SubSeq *)
(* and \o.  Python floats are replaced by exact integer arithmetic: every  *)
(* comparison a/b > k/10 of the source is written a*10 > k*b.  Four        *)
(* non-ASCII characters of the source are written with ASCII stand-ins     *)
(* (EM_DASH, ELLIPSIS_CHAR, BULLET, ARROW); the stand-ins occur nowhere    *)
(* else in the modelled texts.                                             *)
(***************************************************************************)
EXTENDS Integers, Sequences, FiniteSets, Bags, TLC

VARIABLES
    text,           \* detection: the text handed to calculate_detection_score
    voice_dna,      \* detection: the profile argument (a Python value)
    result,         \* detection: what the call returned or raised
    clone,          \* the voice_clones row: confidence_score, current_dna_id, is_merged
    samples,        \* the writing_samples rows of the clone, a bag of rows
    dna_versions,   \* the voice_dna_versions rows of the clone, by version
    contents,       \* the contents rows, by id
    response,       \* what the last request returned
    requests,       \* the add-sample and delete-sample requests in progress
    voice_clones,   \* merging: the voice_clones rows, by id
    voice_dna_versions,  \* merging: the voice_dna_versions rows, by id
    merge_sources,  \* merging: the voice_clone_merge_sources rows
    merge_request,  \* merging: the body of the last POST /voice-clones/merge
    settings,       \* the user's settings row
    settings_history,    \* the settings_history rows of that settings row
    assigned,       \* the history versions assigned so far, by setting type, in order
    platforms,      \* the user's platform_settings rows
    uuid_count      \* the number of uuid4() values drawn so far, by the kind of row

(***************************************************************************)
(* Python values (the JSON document stored as dna_data)                    *)
(***************************************************************************)
PyNone == [type |-> "NoneType"]
PyStr(s) == [type |-> "str", value |-> s]
PyInt(n) == [type |-> "int", value |-> n]
PyList(xs) == [type |-> "list", items |-> xs]
PyDict(f) == [type |-> "dict", items |-> f]
EmptyDict == [k \in {} |-> 0]

\* bool(v) as used by `if voice_dna:`
truthy(v) ==
    CASE v.type = "NoneType" -> FALSE
      [] v.type = "dict" -> DOMAIN v.items # {}
      [] v.type = "list" -> Len(v.items) > 0
      [] v.type = "str" -> v.value # ""
      [] v.type = "int" -> v.value # 0

\* d.get(key, default) on a dict value
dict_get(d, key, default) ==
    IF key \in DOMAIN d.items THEN d.items[key] ELSE default

(***************************************************************************)
(* Characters and strings                                                  *)
(***************************************************************************)
EM_DASH == "~"          \* stands for U+2014
ELLIPSIS_CHAR == "^"    \* stands for U+2026
BULLET == "@"           \* stands for U+2022
ARROW == ">"            \* stands for U+2192

Whitespace == {" ", "\n", "\t"}
Digits == {"0", "1", "2", "3", "4", "5", "6", "7", "8", "9"}
LowerLetters ==
    {"a", "b", "c", "d", "e", "f", "g", "h", "i", "j", "k", "l", "m",
     "n", "o", "p", "q", "r", "s", "t", "u", "v", "w", "x", "y", "z"}
UpperLetters ==
    {"A", "B", "C", "D", "E", "F", "G", "H", "I", "J", "K", "L", "M",
     "N", "O", "P", "Q", "R", "S", "T", "U", "V", "W", "X", "Y", "Z"}
WordChars == LowerLetters \cup UpperLetters \cup Digits \cup {"_"}   \* \w

ToLower ==
    ("A" :> "a") @@ ("B" :> "b") @@ ("C" :> "c") @@ ("D" :> "d") @@
    ("E" :> "e") @@ ("F" :> "f") @@ ("G" :> "g") @@ ("H" :> "h") @@
    ("I" :> "i") @@ ("J" :> "j") @@ ("K" :> "k") @@ ("L" :> "l") @@
    ("M" :> "m") @@ ("N" :> "n") @@ ("O" :> "o") @@ ("P" :> "p") @@
    ("Q" :> "q") @@ ("R" :> "r") @@ ("S" :> "s") @@ ("T" :> "t") @@
    ("U" :> "u") @@ ("V" :> "v") @@ ("W" :> "w") @@ ("X" :> "x") @@
    ("Y" :> "y") @@ ("Z" :> "z")

\* the character at index i, the empty string outside the text
Char(t, i) == IF i >= 1 /\ i <= Len(t) THEN SubSeq(t, i, i) ELSE ""

\* Recursions over the characters of a text halve the index range, so that
\* their depth stays logarithmic in the length of the text.
RECURSIVE lower_range(_, _, _)
lower_range(t, a, b) ==
    IF a > b THEN ""
    ELSE IF a = b
         THEN LET c == Char(t, a) IN IF c \in UpperLetters THEN ToLower[c] ELSE c
         ELSE LET m == (a + b) \div 2
              IN  lower_range(t, a, m) \o lower_range(t, m + 1, b)

\* str.lower()
lower(t) == lower_range(t, 1, Len(t))

\* str.isupper() of a one-character string
isupper(c) == c \in UpperLetters

\* least index >= i whose character is (in = TRUE) or is not (in = FALSE)
\* in the class cls, Len(t)+1 if none
scan(t, i, cls, in) ==
    LET hit(k) == (Char(t, k) \in cls) = in
    IN  IF \E k \in i..Len(t) : hit(k)
        THEN CHOOSE k \in i..Len(t) : hit(k) /\ \A j \in i..(k - 1) : ~hit(j)
        ELSE Len(t) + 1

\* greatest index <= i holding a non-whitespace character, 0 if none
last_non_ws(t, i) ==
    LET hit(k) == Char(t, k) \notin Whitespace
    IN  IF \E k \in 1..i : hit(k)
        THEN CHOOSE k \in 1..i : hit(k) /\ \A j \in (k + 1)..i : ~hit(j)
        ELSE 0

\* str.strip()
strip(t) ==
    LET a == scan(t, 1, Whitespace, FALSE)
    IN  IF a > Len(t) THEN "" ELSE SubSeq(t, a, last_non_ws(t, Len(t)))

\* least index k >= i at which sub occurs in t, 0 if none
find(t, sub, i) ==
    LET last == Len(t) - Len(sub) + 1
        hit(k) == SubSeq(t, k, k + Len(sub) - 1) = sub
    IN  IF \E k \in i..last : hit(k)
        THEN CHOOSE k \in i..last : hit(k) /\ \A j \in i..(k - 1) : ~hit(j)
        ELSE 0

\* `sub in t`
contains(t, sub) == \E k \in 1..(Len(t) - Len(sub) + 1) : SubSeq(t, k, k + Len(sub) - 1) = sub

\* str.startswith(prefix)
startswith(t, prefix) ==
    Len(prefix) <= Len(t) /\ SubSeq(t, 1, Len(prefix)) = prefix

\* str.count(c) for a one-character c
count_char(t, c) == Cardinality({i \in 1..Len(t) : Char(t, i) = c})

\* str.split(sep): the pieces between the occurrences of sep, left to right
RECURSIVE split_from(_, _, _)
split_from(t, sep, i) ==
    LET k == find(t, sep, i)
    IN  IF k = 0 THEN <<SubSeq(t, i, Len(t))>>
        ELSE <<SubSeq(t, i, k - 1)>> \o split_from(t, sep, k + Len(sep))

split(t, sep) == split_from(t, sep, 1)

\* the maximal runs of characters inside (in = TRUE) or outside (in = FALSE)
\* the class cls that start at an index in a..b, in order
RECURSIVE runs_in(_, _, _, _, _)
runs_in(t, cls, in, a, b) ==
    IF a > b THEN <<>>
    ELSE IF a = b
         THEN IF /\ (Char(t, a) \in cls) = in
                 /\ (a = 1 \/ (Char(t, a - 1) \in cls) # in)
              THEN <<SubSeq(t, a, scan(t, a, cls, ~in) - 1)>>
              ELSE <<>>
         ELSE LET m == (a + b) \div 2
              IN  runs_in(t, cls, in, a, m) \o runs_in(t, cls, in, m + 1, b)

\* str.split(): the maximal runs of non-whitespace characters
split_ws(t) == runs_in(t, Whitespace, FALSE, 1, Len(t))

\* re.split(r"[.!?]+", t)
SentenceEnd == {".", "!", "?"}
RECURSIVE re_split_from(_, _)
re_split_from(t, i) ==
    LET k == scan(t, i, SentenceEnd, TRUE)
    IN  IF k > Len(t) THEN <<SubSeq(t, i, Len(t))>>
        ELSE <<SubSeq(t, i, k - 1)>>
             \o re_split_from(t, scan(t, k, SentenceEnd, FALSE))

\* re.findall(r"\b\w+\b", t): the maximal runs of word characters
findall_words(t) == runs_in(t, WordChars, TRUE, 1, Len(t))

\* the regex assertion \b between positions k-1 and k of t
is_word_at(t, k) == k >= 1 /\ k <= Len(t) /\ Char(t, k) \in WordChars
boundary(t, k) == is_word_at(t, k - 1) # is_word_at(t, k)

all_digits(t, a, b) == \A k \in a..b : k <= Len(t) /\ Char(t, k) \in Digits

\* re.search(r"\b(w1|w2|...)\b", t) for literal words
search_words(t, ws) ==
    \E w \in ws : \E i \in 1..(Len(t) - Len(w) + 1) :
        /\ SubSeq(t, i, i + Len(w) - 1) = w
        /\ boundary(t, i)
        /\ boundary(t, i + Len(w))

Range(s) == {s[i] : i \in 1..Len(s)}

RECURSIVE SumSeq(_)
SumSeq(s) == IF Len(s) = 0 THEN 0 ELSE Head(s) + SumSeq(Tail(s))

MaxOf(S) == CHOOSE m \in S : \A n \in S : n <= m
MinOf(S) == CHOOSE m \in S : \A n \in S : m <= n
Min2(a, b) == IF a < b THEN a ELSE b
Max2(a, b) == IF a > b THEN a ELSE b
\* variant of clamp that applies the lower limit only: max(lo, v)
clamp_lower_only(lo, hi, v) == Max2(lo, v)
clamp(lo, hi, v) == Max2(lo, Min2(hi, v))     \* max(lo, min(hi, v))
Bool(b) == IF b THEN 1 ELSE 0                 \* True counts as 1 in sum()

(***************************************************************************)
(* services/detection.py                                                   *)
(***************************************************************************)
NonEmpty(s) == s # ""

_get_sentences(t) ==
    LET pieces == re_split_from(t, 1)
        stripped == [i \in 1..Len(pieces) |-> strip(pieces[i])]
    IN  SelectSeq(stripped, NonEmpty)

_get_words(t) == findall_words(lower(t))

\* The lists of per-sentence word counts with cv = 0.5 exactly for which
\* lines 87-93 compute 0.5000000000000001 in doubles: all such lists of at
\* most 5 counts of at most 15 words in ascending order (the sum of line 91
\* depends on the order of the sentences).
RoundsAboveHalf ==
    {<<1, 4, 7, 7, 9>>, <<1, 5, 5, 8, 9>>, <<1, 7, 7, 9, 12>>, <<3, 3, 4, 9, 9>>,
     <<3, 3, 9, 9, 12>>, <<3, 4, 5, 5, 11>>, <<3, 5, 11, 14, 15>>}

_score_sentence_variety(t) ==
    LET sentences == _get_sentences(t)
        n == Len(sentences)
        lengths == [i \in 1..n |-> Len(split_ws(sentences[i]))]
        total == SumSeq(lengths)                      \* mean_len = total / n
        squares == SumSeq([i \in 1..n |-> lengths[i] * lengths[i]])
        nvar == n * squares - total * total           \* variance * n^2
        \* cv = std_dev / mean_len, so cv > k/10 iff 100*nvar > k*k*total^2,
        \* which the doubles decide in the same way except at some lists
        \* whose cv is exactly 0.5
        above(k) ==
            \/ 100 * nvar > k * k * total * total
            \/ k = 5 /\ lengths \in RoundsAboveHalf
    IN  IF n < 2 THEN 5
        ELSE IF total = 0 THEN 5
        ELSE IF above(5) THEN 20
        ELSE IF above(4) THEN 17
        ELSE IF above(3) THEN 14
        ELSE IF above(2) THEN 10
        ELSE 5

_score_vocabulary_diversity(t) ==
    LET words == _get_words(t)
        n == Len(words)
        unique == Cardinality(Range(words))
        \* ttr = unique / n, times 1.3 for more than 200 words, in tenths
        boost == IF n > 200 THEN 13 ELSE 10
        \* ttr > k/10 as the doubles decide it: they agree with the exact
        \* values except that (6/13) * 1.3 is 0.6000000000000001 > 0.6
        above(k) ==
            \/ boost * unique > k * n
            \/ n > 200 /\ k = 6 /\ 13 * unique = 6 * n
    IN  IF n < 10 THEN 5
        ELSE IF above(7) THEN 15
        ELSE IF above(6) THEN 12
        ELSE IF above(5) THEN 9
        ELSE IF above(4) THEN 6
        ELSE 3

\* r"\b\d{1,2}[%]\b"
search_percentage(t) ==
    \E i \in 1..Len(t) : \E k \in 1..2 :
        /\ boundary(t, i)
        /\ all_digits(t, i, i + k - 1)
        /\ Char(t, i + k) = "%"
        /\ boundary(t, i + k + 1)

\* r"\b\d+[,.]\d+\b"
search_decimal(t) ==
    \E s \in 2..(Len(t) - 1) :
        /\ Char(t, s) \in {",", "."}
        /\ Char(t, s - 1) \in Digits
        /\ Char(t, s + 1) \in Digits
        /\ \E i \in 1..(s - 1) : boundary(t, i) /\ all_digits(t, i, s - 1)
        /\ \E e \in (s + 1)..Len(t) : all_digits(t, s + 1, e) /\ boundary(t, e + 1)

\* r"\b\d{4}\b"
search_year(t) ==
    \E i \in 1..(Len(t) - 3) :
        boundary(t, i) /\ all_digits(t, i, i + 3) /\ boundary(t, i + 4)

\* r'"[^"]+?"'
search_quoted(t) ==
    \E i \in 1..Len(t) : \E j \in (i + 2)..Len(t) :
        /\ Char(t, i) = "\""
        /\ Char(t, j) = "\""
        /\ \A k \in (i + 1)..(j - 1) : Char(t, k) # "\""

weekdays ==
    {"monday", "tuesday", "wednesday", "thursday", "friday", "saturday", "sunday"}
months ==
    {"january", "february", "march", "april", "may", "june", "july", "august",
     "september", "october", "november", "december"}
precise_words == {"specifically", "particularly", "exactly", "precisely"}

\* variant of generic_phrases without "in conclusion"
generic_phrases_shorter ==
    <<"in today's world", "it's important to note",
      "as we all know", "in this day and age", "going forward",
      "at the end of the day", "it goes without saying">>

generic_phrases ==
    <<"in today's world", "in conclusion", "it's important to note",
      "as we all know", "in this day and age", "going forward",
      "at the end of the day", "it goes without saying">>

\* variant of count_present: every occurrence of an entry is counted
count_occurrences(t, list) ==
    LET at(i) == {k \in 1..Len(t) : SubSeq(t, k, Min2(Len(t), k + Len(list[i]) - 1)) = list[i]}
    IN  SumSeq([i \in 1..Len(list) |-> Cardinality(at(i))])

\* the number of entries of the list that occur in t as substrings
count_present(t, list) ==
    Cardinality({i \in 1..Len(list) : contains(t, list[i])})

_score_specificity(t) ==
    LET text_lower == lower(t)
        specific ==
            Bool(search_percentage(text_lower))
            + Bool(search_decimal(text_lower))
            + Bool(search_words(text_lower, weekdays))
            + Bool(search_words(text_lower, months))
            + Bool(search_year(text_lower))
            + Bool(search_quoted(text_lower))
            + Bool(search_words(text_lower, precise_words))
        score == 2 * specific - 2 * count_present(text_lower, generic_phrases)
    IN  clamp(0, 15, score + 8)

ai_transitions ==
    <<"furthermore", "moreover", "additionally", "in addition",
      "consequently", "subsequently", "thus", "hence">>
natural_transitions ==
    <<"but", "so", "and", "also", "though", "still", "yet", "anyway",
      "look", "honestly">>

_score_transitions(t) ==
    LET text_lower == lower(t)
        ai_count == count_present(text_lower, ai_transitions)
        natural_count == count_present(text_lower, natural_transitions)
    IN  clamp(0, 10, 5 + natural_count * 2 - ai_count * 2)

\* variant of ai_openings in which one opening is the start of another
ai_openings_overlapping ==
    <<"in today's", "in today's world", "have you", "have you ever">>

ai_openings == <<"in today's", "have you ever", "let me tell you", "i'm excited to">>
cta_patterns == <<"let me know", "share your", "drop a comment", "what do you think">>

_score_openings_closings(t, dna) ==
    LET sentences == _get_sentences(t)
        first_sentence == lower(sentences[1])
        last_sentence ==
            IF Len(sentences) > 1 THEN lower(sentences[Len(sentences)]) ELSE ""
        penalty ==
            2 * Cardinality({i \in 1..Len(ai_openings) :
                                startswith(first_sentence, ai_openings[i])})
        \* the test is made on the lowercased first sentence
        direct ==
            IF isupper(Char(first_sentence, 1)) /\ Len(split_ws(first_sentence)) < 10
            THEN 2 ELSE 0
        cta ==
            IF last_sentence # ""
               /\ \E i \in 1..Len(cta_patterns) : contains(last_sentence, cta_patterns[i])
            THEN 1 ELSE 0
    IN  IF Len(sentences) = 0 THEN 5
        ELSE clamp(0, 10, 5 - penalty + direct + cta)

\* variant of _score_punctuation that uses its second argument
_score_punctuation_profiled(t, dna) == IF truthy(dna) THEN 10 ELSE 5

_score_punctuation(t, dna) ==
    LET has_em_dash == contains(t, EM_DASH) \/ contains(t, " - ")
        has_ellipsis == contains(t, "...") \/ contains(t, ELLIPSIS_CHAR)
        has_parenthetical == contains(t, "(") /\ contains(t, ")")
        has_exclamation == contains(t, "!")
        has_question == contains(t, "?")
        variety_count ==
            Bool(has_em_dash) + Bool(has_ellipsis) + Bool(has_parenthetical)
            + Bool(has_exclamation) + Bool(has_question)
        comma_count == count_char(t, ",")
        sentence_count == Len(_get_sentences(t))
        \* 1.0 < comma_count / sentence_count < 3.0
        commas ==
            IF sentence_count > 0
               /\ sentence_count < comma_count
               /\ comma_count < 3 * sentence_count
            THEN 2 ELSE 0
    IN  clamp(0, 10, 5 + Min2(variety_count, 3) + commas)

personality_words ==
    <<"i", "we", "my", "our", "honestly", "frankly", "actually", "literally",
      "seriously">>

\* variant of search_question_end: a question mark anywhere
search_question_anywhere(t) == contains(t, "?")

\* r"\?$": a question mark at the end, or before a final newline
search_question_end(t) ==
    LET n == Len(t)
    IN  \/ n >= 1 /\ Char(t, n) = "?"
        \/ n >= 2 /\ Char(t, n) = "\n" /\ Char(t, n - 1) = "?"

RECURSIVE set_to_seq(_)
set_to_seq(S) ==
    IF S = {} THEN <<>>
    ELSE LET x == CHOOSE x \in S : TRUE IN <<x>> \o set_to_seq(S \ {x})

\* whether `for example in v` can start
iterable(v) == v.type \in {"list", "str", "dict"}

\* the values `for example in v` goes through
iterate(v) ==
    CASE v.type = "list" -> v.items
      [] v.type = "str" -> [i \in 1..Len(v.value) |-> PyStr(Char(v.value, i))]
      [] v.type = "dict" ->
            LET keys == set_to_seq(DOMAIN v.items)
            IN  [i \in 1..Len(keys) |-> PyStr(keys[i])]

Returned(v) == [raised |-> "none", value |-> v]
Raised(e) == [raised |-> e]

\* the number of signature examples found in the text (lines 298-304),
\* or the exception the loop raises
signature_matches(text_lower, dna) ==
    IF ~truthy(dna) THEN Returned(0)
    ELSE LET signatures == dict_get(dna, "distinctive_signatures", PyDict(EmptyDict))
         IN  IF signatures.type # "dict" THEN Returned(0)
             ELSE LET examples == dict_get(signatures, "examples", PyList(<<>>))
                  IN  IF ~iterable(examples) THEN Raised("TypeError")
                      ELSE LET items == iterate(examples)
                           IN  Returned(Cardinality(
                                   {i \in 1..Len(items) :
                                       /\ items[i].type = "str"
                                       /\ contains(text_lower, lower(items[i].value))}))

_score_personality(t, dna) ==
    LET text_lower == lower(t)
        markers ==
            Cardinality({i \in 1..Len(personality_words) :
                            search_words(text_lower, {personality_words[i]})})
            + Bool(contains(text_lower, "!"))
            + Bool(search_question_end(text_lower))
        matches == signature_matches(text_lower, dna)
        \* score counted in halves: 5 + 0.5 per marker + 2 per example
        halves == 10 + markers + 4 * matches.value
    IN  IF matches.raised # "none" THEN matches
        ELSE Returned(clamp(0, 10, halves \div 2))

\* variant of match_numbered without the dot: re.match(r"^\d+", line)
match_digits(line) == Len(line) >= 1 /\ Char(line, 1) \in Digits

\* re.match(r"^\d+\.", line)
match_numbered(line) ==
    \E k \in 1..(Len(line) - 1) : all_digits(line, 1, k) /\ Char(line, k + 1) = "."

_score_structure(t) ==
    LET parts == split(t, "\n\n")
        paragraphs ==
            SelectSeq([i \in 1..Len(parts) |-> strip(parts[i])], NonEmpty)
        para_lengths == {Len(split_ws(paragraphs[i])) : i \in 1..Len(paragraphs)}
        spread ==
            IF Len(paragraphs) > 1 /\ MaxOf(para_lengths) - MinOf(para_lengths) > 20
            THEN 2 ELSE 0
        lines == split(t, "\n")
        has_bullets ==
            \E i \in 1..Len(lines) : \E b \in {"-", BULLET, "*", ARROW} :
                startswith(strip(lines[i]), b)
        has_numbers == \E i \in 1..Len(lines) : match_numbered(strip(lines[i]))
        lists == IF has_bullets \/ has_numbers THEN 2 ELSE 0
        para_starts ==
            [i \in 1..Len(paragraphs) |->
                LET ws == split_ws(paragraphs[i])
                IN  IF Len(ws) > 0 THEN lower(ws[1]) ELSE ""]
        unique_starts == Cardinality(Range(para_starts))
        \* unique_starts >= len(para_starts) * 0.7
        varied == IF 10 * unique_starts >= 7 * Len(para_starts) THEN 1 ELSE 0
    IN  clamp(0, 10, 5 + spread + lists + varied)

\* variant of sum_values that adds each distinct value once: sum(set(breakdown.values()))
sum_distinct_values(bd) ==
    LET values == set_to_seq({bd[k] : k \in DOMAIN bd})
    IN  SumSeq(values)

\* sum(breakdown.values())
sum_values(bd) ==
    LET keys == set_to_seq(DOMAIN bd)
    IN  SumSeq([i \in 1..Len(keys) |-> bd[keys[i]]])

\* lines 32-61: the eight sub-scores of a non-blank text and their capped sum
score_breakdown(t, dna) ==
    LET personality == _score_personality(t, dna)
        breakdown ==
            ("sentence_variety" :> _score_sentence_variety(t))
            @@ ("vocabulary_diversity" :> _score_vocabulary_diversity(t))
            @@ ("specificity" :> _score_specificity(t))
            @@ ("transition_naturalness" :> _score_transitions(t))
            @@ ("opening_closing" :> _score_openings_closings(t, dna))
            @@ ("punctuation" :> _score_punctuation(t, dna))
            @@ ("personality" :> personality.value)
            @@ ("structure" :> _score_structure(t))
    IN  IF personality.raised # "none" THEN Raised(personality.raised)
        ELSE [raised |-> "none",
              score |-> Min2(sum_values(breakdown), 100),
              breakdown |-> breakdown]

\* the result for a blank text, line 30
blank_result == [raised |-> "none", score |-> 0, breakdown |-> EmptyDict]

\* variant of calculate_detection_score that marks a blank text as unscored with -1
calculate_detection_score_unscored(t, dna) ==
    IF t = "" \/ strip(t) = ""
    THEN [raised |-> "none", score |-> -1, breakdown |-> EmptyDict]
    ELSE score_breakdown(t, dna)

\* variant of calculate_detection_score whose blank test is `if not text`, without strip()
calculate_detection_score_unstripped(t, dna) ==
    IF t = "" THEN blank_result ELSE score_breakdown(t, dna)

calculate_detection_score(t, dna) ==
    IF t = "" \/ strip(t) = "" THEN blank_result ELSE score_breakdown(t, dna)

(***************************************************************************)
(* Inputs of the detection scorer                                          *)
(***************************************************************************)
MaxFrags == 2

\* Texts are concatenations of at most MaxFrags of these fragments.
Fragments ==
    {"\n\n",
     "In conclusion, going forward we must act. ",
     "Furthermore, thus, it goes without saying, as we all know... ",
     "But honestly, I also look at it! ",
     "On Monday, 5 May 2024, exactly 3.5 said \"no\" (twice). ",
     "Have you ever wondered why? ",
     "Let me know what you think",
     "- a a a a a a a a a a a a a a a a a a a a a a a a a a\n\n",
     "b c d e f g h j k l m. "}

RECURSIVE Join(_)
Join(fs) == IF Len(fs) = 0 THEN "" ELSE Head(fs) \o Join(Tail(fs))

Texts == UNION {{Join(fs) : fs \in [1..n -> Fragments]} : n \in 0..MaxFrags}

Signatures(v) == PyDict("distinctive_signatures" :> v)
Examples(v) == Signatures(PyDict(("description" :> PyStr("dry wit")) @@ ("examples" :> v)))

\* Profiles: None, well-formed ones, and the malformed shapes of dna_data
WellFormedProfiles ==
    {PyNone,
     Examples(PyList(<<PyStr("Honestly"), PyStr("we must"), PyStr("wondered why")>>)),
     Examples(PyList(<<>>))}
MalformedProfiles ==
    {PyDict(EmptyDict),
     PyDict("tone_markers" :> PyDict("examples" :> PyList(<<PyStr("honestly")>>))),
     Signatures(PyStr("honestly")),
     Signatures(PyDict("description" :> PyStr("dry wit"))),
     Examples(PyNone),
     Examples(PyInt(3)),
     Examples(PyList(<<PyStr("look at it"), PyInt(7), PyNone>>)),
     Examples(PyStr("a!"))}
Profiles == WellFormedProfiles \cup MalformedProfiles

NotCalled == [raised |-> "pending"]

(***************************************************************************)
(* VoiceCloneService.calculate_confidence_score                            *)
(***************************************************************************)
SourceTypes == {"paste", "file", "url"}
Row(st, wc) == [source_type |-> st, word_count |-> wc]

\* sum(val[s] for s in samples) over the rows S of a bag
RECURSIVE sum_rows(_, _, _)
sum_rows(rows, S, val) ==
    IF S = {} THEN 0
    ELSE LET r == CHOOSE r \in S : TRUE
         IN  rows[r] * val[r] + sum_rows(rows, S \ {r}, val)

\* len(samples)
count_rows(rows) == sum_rows(rows, BagToSet(rows), [r \in BagToSet(rows) |-> 1])
\* sum(s.word_count for s in samples)
sum_words(rows) == sum_rows(rows, BagToSet(rows), [r \in BagToSet(rows) |-> r.word_count])
\* sum(s.word_count ** 2 for s in samples)
sum_squares(rows) ==
    sum_rows(rows, BagToSet(rows), [r \in BagToSet(rows) |-> r.word_count * r.word_count])

\* variant of word_count_score with the points of two thresholds exchanged
word_count_score_exchanged(total_words) ==
    IF total_words >= 10000 THEN 30
    ELSE IF total_words >= 5000 THEN 20
    ELSE IF total_words >= 2500 THEN 25
    ELSE IF total_words >= 1000 THEN 15
    ELSE IF total_words >= 500 THEN 10
    ELSE Min2(total_words \div 50, 10)

word_count_score(total_words) ==
    IF total_words >= 10000 THEN 30
    ELSE IF total_words >= 5000 THEN 25
    ELSE IF total_words >= 2500 THEN 20
    ELSE IF total_words >= 1000 THEN 15
    ELSE IF total_words >= 500 THEN 10
    ELSE Min2(total_words \div 50, 10)

sample_count_score(sample_count) ==
    IF sample_count >= 10 THEN 20
    ELSE IF sample_count >= 5 THEN 15
    ELSE IF sample_count >= 3 THEN 10
    ELSE sample_count * 3

\* variant of content_variety_score without the bonus for sample lengths
content_variety_score_types_only(rows) ==
    Min2(Cardinality({r.source_type : r \in BagToSet(rows)}) * 5, 20)

\* variant of content_variety_score with 3 points for every sample
content_variety_score_per_sample(rows) ==
    Min2(Cardinality({r.source_type : r \in BagToSet(rows)}) * 5 + count_rows(rows) * 3, 20)

content_variety_score(rows) ==
    LET kinds == BagToSet(rows)
        source_types == {r.source_type : r \in kinds}
        has_short == \E r \in kinds : r.word_count < 200
        has_medium == \E r \in kinds : 200 <= r.word_count /\ r.word_count < 1000
        has_long == \E r \in kinds : r.word_count >= 1000
        bonus ==
            IF kinds # {} THEN (Bool(has_short) + Bool(has_medium) + Bool(has_long)) * 3
            ELSE 0
    IN  Min2(Cardinality(source_types) * 5 + bonus, 20)

\* the word counts of the samples, each with the number of samples having it
word_counts(rows) ==
    [w \in {r.word_count : r \in BagToSet(rows)} |->
        sum_rows(rows, {r \in BagToSet(rows) : r.word_count = w},
                 [r \in BagToSet(rows) |-> 1])]

\* The word counts with std_dev = 100 exactly for which lines 190-194 compute
\* 100.00000000000001 in doubles, in every order of the samples.
RoundsAboveHundred ==
    {(50 :> 4) @@ (60 :> 2) @@ (230 :> 1) @@ (280 :> 2)}

length_distribution_score(rows) ==
    LET n == count_rows(rows)
        total == sum_words(rows)
        \* variance * n^2, with variance = sum((wc - avg)^2) / n
        nvar == n * sum_squares(rows) - total * total
        \* std_dev > k iff variance * n^2 > k^2 * n^2, which the doubles
        \* decide in the same way except at some samples with std_dev = 100
        above(k) ==
            \/ nvar > k * k * n * n
            \/ k = 100 /\ word_counts(rows) \in RoundsAboveHundred
        length_score ==
            IF n = 0 THEN 0
            ELSE IF n >= 3
                 THEN IF above(500) THEN 15
                      ELSE IF above(200) THEN 12
                      ELSE IF above(100) THEN 8
                      ELSE 5
                 ELSE n * 3
    IN  Min2(length_score, 15)

\* variant of consistency_score whose last test is `sample_count >= 0`
consistency_score_from_zero(sample_count, has_dna) ==
    IF has_dna THEN 15
    ELSE IF sample_count >= 3 THEN 8
    ELSE IF sample_count >= 0 THEN 3
    ELSE 0

consistency_score(sample_count, has_dna) ==
    IF has_dna THEN 15
    ELSE IF sample_count >= 3 THEN 8
    ELSE IF sample_count >= 1 THEN 3
    ELSE 0

\* the breakdown built at lines 143-221 from clone.samples and clone.current_dna_id
confidence_breakdown(rows, current_dna_id) ==
    LET sample_count == count_rows(rows)
    IN  ("word_count" :> word_count_score(sum_words(rows)))
        @@ ("sample_count" :> sample_count_score(sample_count))
        @@ ("content_variety" :> content_variety_score(rows))
        @@ ("length_distribution" :> length_distribution_score(rows))
        @@ ("consistency" :> consistency_score(sample_count, current_dna_id # 0))

\* variant of ConfidenceScoreResponse whose upper bound is exclusive: ge=0, lt=100
ConfidenceScoreResponse_lt(score, breakdown) ==
    IF score >= 0 /\ score < 100
    THEN [raised |-> "none", score |-> score, breakdown |-> breakdown]
    ELSE Raised("ValidationError")

\* ConfidenceScoreResponse(score=..., breakdown=...): score has ge=0, le=100
ConfidenceScoreResponse(score, breakdown) ==
    IF score >= 0 /\ score <= 100
    THEN [raised |-> "none", score |-> score, breakdown |-> breakdown]
    ELSE Raised("ValidationError")

\* variant of calculate_confidence_score that averages the new total with the
\* score stored before the call
calculate_confidence_score_smoothed(rows, current_dna_id) ==
    LET breakdown == confidence_breakdown(rows, current_dna_id)
        total_score == Min2((clone.confidence_score + sum_values(breakdown)) \div 2, 100)
    IN  [stored |-> total_score,
         returned |-> ConfidenceScoreResponse(total_score, breakdown)]

\* calculate_confidence_score on the clone whose samples collection holds
\* `rows`: the score it writes to clone.confidence_score and what it returns
calculate_confidence_score(rows, current_dna_id) ==
    LET breakdown == confidence_breakdown(rows, current_dna_id)
        total_score == Min2(sum_values(breakdown), 100)
    IN  [stored |-> total_score,
         returned |-> ConfidenceScoreResponse(total_score, breakdown)]

(***************************************************************************)
(* Specifications                                                          *)
(***************************************************************************)
vars ==
    <<text, voice_dna, result, clone, samples, dna_versions, contents, response,
      requests, voice_clones, voice_dna_versions, merge_sources, merge_request,
      settings, settings_history, assigned, platforms, uuid_count>>

detect_vars == <<text, voice_dna, result>>
clone_vars == <<clone, samples, dna_versions, response>>
content_vars == <<contents>>
race_vars == <<requests>>
merge_vars == <<voice_clones, voice_dna_versions, merge_sources, merge_request>>
settings_vars == <<settings, settings_history, assigned>>
platform_vars == <<platforms>>
service_vars == <<race_vars, merge_vars, settings_vars, platform_vars, uuid_count>>

NoClone == [exists |-> FALSE]
NoResponse == [op |-> "none"]
NoRequests == <<>>

DetectIdle == text = "" /\ voice_dna = PyNone /\ result = NotCalled
CloneIdle ==
    /\ clone = NoClone /\ samples = EmptyBag /\ dna_versions = <<>>
    /\ contents = <<>> /\ response = NoResponse
SettingTypes == {"voice_cloning_instructions", "anti_ai_guidelines"}
RowKinds == SettingTypes \cup {"platform_settings"}
NoUuids == [kind \in RowKinds |-> 0]
NoSettings == [exists |-> FALSE]
RaceIdle == requests = NoRequests
MergeIdle ==
    /\ voice_clones = <<>> /\ voice_dna_versions = <<>>
    /\ merge_sources = {} /\ merge_request = NoResponse
SettingsIdle ==
    /\ settings = NoSettings /\ settings_history = {}
    /\ assigned = [setting_type \in SettingTypes |-> <<>>]
PlatformsIdle == platforms = {}
ServicesIdle == RaceIdle /\ MergeIdle /\ SettingsIdle /\ PlatformsIdle /\ uuid_count = NoUuids

(***************************************************************************)
(* SpecDetect: one call of calculate_detection_score on a drawn input      *)
(***************************************************************************)
InitDetect ==
    /\ text \in Texts
    /\ voice_dna \in Profiles
    /\ result = NotCalled
    /\ CloneIdle
    /\ ServicesIdle

Score ==
    /\ result = NotCalled
    /\ result' = calculate_detection_score(text, voice_dna)
    /\ UNCHANGED <<text, voice_dna>>
    /\ UNCHANGED <<clone_vars, content_vars, service_vars>>

NextDetect == Score

SpecDetect == InitDetect /\ [][NextDetect]_vars

(***************************************************************************)
(* Request handlers of api/voice_clones.py.  Each action is one request,   *)
(* run in its own database session and committed when the handler returns; *)
(* a handler that raises leaves the tables as they were.                   *)
(*                                                                         *)
(* Within one session a VoiceClone instance is loaded once.  A handler     *)
(* that has loaded the clone with selectinload(VoiceClone.samples) holds   *)
(* the instance with its samples collection; the SELECT that               *)
(* calculate_confidence_score issues for the same id in the same session   *)
(* returns that instance and leaves the loaded collection as it is.  So    *)
(* clone.samples at line 143 is the collection as first loaded in the      *)
(* request: `loaded` in the handlers below.                                *)
(***************************************************************************)
MIN_SAMPLE_WORDS == 50
MaxSamples == 3
MaxDnaVersions == 2

\* word counts _count_words may find in the submitted content
SubmittedWordCounts == {40, 150, 1500}

\* documents _parse_dna_response may obtain from the analysis
AnalysisOutputs ==
    {Examples(PyList(<<PyStr("Honestly"), PyStr("wondered why")>>)),
     Examples(PyList(<<>>)),
     Examples(PyNone)}

\* POST /voice-clones
create_voice_clone ==
    /\ ~clone.exists
    /\ clone' = [exists |-> TRUE, is_merged |-> FALSE, confidence_score |-> 0,
                 current_dna_id |-> 0]
    /\ response' = [op |-> "create_voice_clone", status |-> 201]
    /\ UNCHANGED <<samples, dna_versions>>

\* POST /voice-clones/{clone_id}/samples
add_sample(source_type, word_count) ==
    /\ clone.exists
    /\ BagCardinality(samples) < MaxSamples
    /\ LET loaded == samples                               \* get_by_id, line 183
       IN  IF word_count < MIN_SAMPLE_WORDS
           THEN /\ response' = [op |-> "add_sample", status |-> 400]
                /\ UNCHANGED <<clone, samples>>
           ELSE LET sample == Row(source_type, word_count)
                    calc == calculate_confidence_score(loaded, clone.current_dna_id)
                IN  /\ samples' = samples (+) SetToBag({sample})
                    /\ clone' = [clone EXCEPT !.confidence_score = calc.stored]
                    /\ response' = [op |-> "add_sample", status |-> 201]
    /\ UNCHANGED dna_versions

\* DELETE /voice-clones/{clone_id}/samples/{sample_id}
delete_sample(sample) ==
    /\ clone.exists
    /\ LET loaded == samples                               \* get_by_id, line 220
       IN  IF ~BagIn(sample, samples)
           THEN /\ response' = [op |-> "delete_sample", status |-> 404]
                /\ UNCHANGED <<clone, samples>>
           ELSE LET calc == calculate_confidence_score(loaded, clone.current_dna_id)
                IN  /\ samples' = samples (-) SetToBag({sample})
                    /\ clone' = [clone EXCEPT !.confidence_score = calc.stored]
                    /\ response' = [op |-> "delete_sample", status |-> 204]
    /\ UNCHANGED dna_versions

\* POST /voice-clones/{clone_id}/analyze
analyze_voice_clone(dna_data) ==
    /\ clone.exists
    /\ Len(dna_versions) < MaxDnaVersions
    /\ LET loaded == samples                               \* analysis.py, line 43
       IN  IF loaded = EmptyBag
           THEN /\ response' = [op |-> "analyze", status |-> 400]
                /\ UNCHANGED <<clone, dna_versions>>
           ELSE LET version == Len(dna_versions) + 1
                    calc == calculate_confidence_score(loaded, version)
                IN  /\ dna_versions' = Append(dna_versions, dna_data)
                    /\ clone' = [clone EXCEPT !.current_dna_id = version,
                                              !.confidence_score = calc.stored]
                    /\ response' = [op |-> "analyze", status |-> 200, version |-> version]
    /\ UNCHANGED samples

\* GET /voice-clones/{clone_id}/confidence
get_confidence_score ==
    /\ clone.exists
    /\ LET loaded == samples                               \* get_by_id, line 298
           calc == calculate_confidence_score(loaded, clone.current_dna_id)
       IN  IF calc.returned.raised # "none"
           THEN /\ response' = [op |-> "get_confidence", status |-> 500]
                /\ UNCHANGED clone
           ELSE /\ clone' = [clone EXCEPT !.confidence_score = calc.stored]
                /\ response' = [op |-> "get_confidence", status |-> 200,
                                score |-> calc.returned.score,
                                breakdown |-> calc.returned.breakdown]
    /\ UNCHANGED <<samples, dna_versions>>

(***************************************************************************)
(* SpecConfidence: the confidence scorer on a drawn sample set             *)
(***************************************************************************)
MaxCopies == 2

\* Sample sets hold at most MaxCopies samples of each of these kinds.
SampleKinds ==
    {Row("paste", 0), Row("paste", 150), Row("paste", 1500), Row("file", 600),
     Row("file", 1500), Row("url", 150), Row("url", 1500)}

SampleSets ==
    {[r \in {k \in SampleKinds : f[k] > 0} |-> f[r]] : f \in [SampleKinds -> 0..MaxCopies]}

InitConfidence ==
    /\ DetectIdle
    /\ ServicesIdle
    /\ samples \in SampleSets
    /\ \E has_dna \in BOOLEAN :
        /\ dna_versions = IF has_dna THEN <<Examples(PyList(<<>>))>> ELSE <<>>
        /\ clone = [exists |-> TRUE, is_merged |-> FALSE, confidence_score |-> 0,
                    current_dna_id |-> IF has_dna THEN 1 ELSE 0]
    /\ contents = <<>>
    /\ response = NoResponse

GetConfidence == get_confidence_score /\ UNCHANGED <<detect_vars, content_vars, service_vars>>

NextConfidence == GetConfidence

SpecConfidence == InitConfidence /\ [][NextConfidence]_vars

(***************************************************************************)
(* SpecSamples: the sample-management workflow on one clone                *)
(***************************************************************************)
InitSamples == DetectIdle /\ CloneIdle /\ ServicesIdle

CreateVoiceClone == create_voice_clone /\ UNCHANGED <<detect_vars, content_vars, service_vars>>

AddSample ==
    /\ \E st \in SourceTypes : \E wc \in SubmittedWordCounts : add_sample(st, wc)
    /\ UNCHANGED <<detect_vars, content_vars, service_vars>>

DeleteSample ==
    /\ \E st \in SourceTypes : \E wc \in SubmittedWordCounts : delete_sample(Row(st, wc))
    /\ UNCHANGED <<detect_vars, content_vars, service_vars>>

Analyze ==
    /\ \E dna_data \in AnalysisOutputs : analyze_voice_clone(dna_data)
    /\ UNCHANGED <<detect_vars, content_vars, service_vars>>

NextSamples ==
    \/ CreateVoiceClone
    \/ AddSample
    \/ DeleteSample
    \/ Analyze
    \/ GetConfidence

SpecSamples == InitSamples /\ [][NextSamples]_vars

(***************************************************************************)
(* services/generation.py: GenerationService.generate_content              *)
(***************************************************************************)
MaxContents == 2

\* texts the AI provider may return (result.text)
ProviderTexts ==
    {"  Honestly, why?\n",
     "In conclusion, we act.",
     " \n\t",
     ""}

\* variant of current_dna that reads the clone's first DNA version
first_dna(c, versions) == versions[1]

\* the VoiceDnaVersion row that clone.current_dna_id names
current_dna(c, versions) == versions[c.current_dna_id]

\* POST /content/generate
generate_content(provider_text) ==
    /\ Len(contents) < MaxContents
    /\ IF ~clone.exists
       THEN /\ response' = [op |-> "generate", status |-> 404]
            /\ UNCHANGED contents
       ELSE IF clone.current_dna_id = 0
       THEN /\ response' = [op |-> "generate", status |-> 400]
            /\ UNCHANGED contents
       ELSE \E dna \in {current_dna(clone, dna_versions)} :
            \E generated_text \in {strip(provider_text)} :
            \E detection_result \in {calculate_detection_score(generated_text, dna)} :
            LET id == Len(contents) + 1
            IN  IF detection_result.raised # "none"
                THEN /\ response' = [op |-> "generate", status |-> 500]
                     /\ UNCHANGED contents
                ELSE /\ contents' = Append(contents,
                            [content_text |-> generated_text,
                             dna_version |-> clone.current_dna_id,
                             detection_score |-> detection_result.score,
                             detection_breakdown |-> detection_result.breakdown,
                             status |-> "draft"])
                     /\ response' = [op |-> "generate", status |-> 201, id |-> id,
                                     content_text |-> generated_text,
                                     detection_score |-> detection_result.score,
                                     detection_breakdown |-> detection_result.breakdown]
    /\ UNCHANGED <<clone, samples, dna_versions>>

(***************************************************************************)
(* SpecContent: analysis and generation on a clone that has one sample     *)
(***************************************************************************)
InitContent ==
    /\ DetectIdle
    /\ ServicesIdle
    /\ clone = [exists |-> TRUE, is_merged |-> FALSE, confidence_score |-> 0,
                current_dna_id |-> 0]
    /\ samples = SetToBag({Row("paste", 150)})
    /\ dna_versions = <<>>
    /\ contents = <<>>
    /\ response = NoResponse

GenerateContent ==
    /\ \E provider_text \in ProviderTexts : generate_content(provider_text)
    /\ UNCHANGED <<detect_vars, service_vars>>

NextContent ==
    \/ Analyze
    \/ GenerateContent
    \/ GetConfidence

SpecContent == InitContent /\ [][NextContent]_vars

(***************************************************************************)
(* Updates of a content record: PUT /content/{id} and PUT /library/{id}    *)
(***************************************************************************)
\* texts a client may send as ContentUpdate.content_text
EditedTexts == {"It works!"}
\* ContentUpdate.content_text and ContentUpdate.status; None is PyNone
SubmittedTexts == {PyNone} \cup {PyStr(t) : t \in EditedTexts}
SubmittedStatuses == {PyNone, PyStr("ready")}

\* GenerationService.update_content, called by PUT /content/{content_id}
update_content(content_id, content_text, status) ==
    /\ IF content_id \notin 1..Len(contents)
       THEN /\ response' = [op |-> "update_content", status |-> 404]
            /\ UNCHANGED contents
       ELSE \E detection_result \in
                {IF content_text # PyNone
                 THEN calculate_detection_score(content_text.value, PyNone)
                 ELSE NotCalled} :
            LET content == contents[content_id]
                rescored ==
                    IF content_text # PyNone
                    THEN [content EXCEPT !.content_text = content_text.value,
                                         !.detection_score = detection_result.score,
                                         !.detection_breakdown = detection_result.breakdown]
                    ELSE content
                updated ==
                    IF status # PyNone
                    THEN [rescored EXCEPT !.status = status.value]
                    ELSE rescored
            IN  /\ contents' = [contents EXCEPT ![content_id] = updated]
                /\ response' = [op |-> "update_content", status |-> 200, id |-> content_id]
    /\ UNCHANGED <<clone, samples, dna_versions>>

\* PUT /library/{content_id}
update_library_content(content_id, content_text, status) ==
    /\ IF content_id \notin 1..Len(contents)
       THEN /\ response' = [op |-> "update_library_content", status |-> 404]
            /\ UNCHANGED contents
       ELSE LET content == contents[content_id]
                retexted ==
                    IF content_text # PyNone
                    THEN [content EXCEPT !.content_text = content_text.value]
                    ELSE content
                updated ==
                    IF status # PyNone
                    THEN [retexted EXCEPT !.status = status.value]
                    ELSE retexted
            IN  /\ contents' = [contents EXCEPT ![content_id] = updated]
                /\ response' = [op |-> "update_library_content", status |-> 200,
                                id |-> content_id]
    /\ UNCHANGED <<clone, samples, dna_versions>>

UpdateContent ==
    /\ \E content_id \in 1..MaxContents :
       \E content_text \in SubmittedTexts : \E status \in SubmittedStatuses :
           update_content(content_id, content_text, status)
    /\ UNCHANGED <<detect_vars, service_vars>>

UpdateLibraryContent ==
    /\ \E content_id \in 1..MaxContents :
       \E content_text \in SubmittedTexts : \E status \in SubmittedStatuses :
           update_library_content(content_id, content_text, status)
    /\ UNCHANGED <<detect_vars, service_vars>>

\* a clone that has been analysed once
InitLibrary ==
    /\ DetectIdle
    /\ ServicesIdle
    /\ clone = [exists |-> TRUE, is_merged |-> FALSE, confidence_score |-> 32,
                current_dna_id |-> 1]
    /\ samples = SetToBag({Row("paste", 150)})
    /\ dna_versions \in {<<dna_data>> : dna_data \in AnalysisOutputs}
    /\ contents = <<>>
    /\ response = NoResponse

NextLibrary ==
    \/ GenerateContent
    \/ UpdateContent
    \/ UpdateLibraryContent

SpecLibrary == InitLibrary /\ [][NextLibrary]_vars

(***************************************************************************)
(* SpecScorers: one call of either scorer on a drawn input                 *)
(***************************************************************************)
InitScorers == InitDetect \/ InitConfidence

NextScorers ==
    \/ Score
    \/ GetConfidence

SpecScorers == InitScorers /\ [][NextScorers]_vars

(***************************************************************************)
(* SpecEqualSamples: the confidence scorer on samples of one length        *)
(***************************************************************************)
MaxPerType == 4

EqualLengths == {0, 40, 150, 1200, 3000}

\* count[st] samples of source type st, each of word_count words
EqualSamples(count, word_count) ==
    [r \in {Row(st, word_count) : st \in {t \in SourceTypes : count[t] > 0}}
        |-> count[r.source_type]]

EqualSampleSets ==
    {EqualSamples(count, wc) : count \in [SourceTypes -> 0..MaxPerType], wc \in EqualLengths}

InitEqualSamples ==
    /\ DetectIdle
    /\ ServicesIdle
    /\ samples \in EqualSampleSets
    /\ \E has_dna \in BOOLEAN :
        /\ dna_versions = IF has_dna THEN <<Examples(PyList(<<>>))>> ELSE <<>>
        /\ clone = [exists |-> TRUE, is_merged |-> FALSE, confidence_score |-> 0,
                    current_dna_id |-> IF has_dna THEN 1 ELSE 0]
    /\ contents = <<>>
    /\ response = NoResponse

NextEqualSamples == GetConfidence

SpecEqualSamples == InitEqualSamples /\ [][NextEqualSamples]_vars

(***************************************************************************)
(* SpecLengths: the confidence scorer on samples whose word counts lie at   *)
(* the limits of the length classes and of the standard deviation          *)
(***************************************************************************)
LengthKinds ==
    {Row("paste", 0), Row("paste", 199), Row("file", 200), Row("paste", 400),
     Row("url", 999), Row("url", 1000), Row("file", 2000)}

\* nine samples whose word counts have the standard deviation 100
NineSamples(st) ==
    (Row(st, 50) :> 4) @@ (Row(st, 60) :> 2) @@ (Row(st, 230) :> 1) @@ (Row(st, 280) :> 2)

LengthSets ==
    {[r \in {k \in LengthKinds : f[k] > 0} |-> f[r]] : f \in [LengthKinds -> 0..MaxCopies]}
    \cup {NineSamples(st) : st \in SourceTypes}

InitLengths ==
    /\ DetectIdle
    /\ ServicesIdle
    /\ samples \in LengthSets
    /\ \E has_dna \in BOOLEAN :
        /\ dna_versions = IF has_dna THEN <<Examples(PyList(<<>>))>> ELSE <<>>
        /\ clone = [exists |-> TRUE, is_merged |-> FALSE, confidence_score |-> 0,
                    current_dna_id |-> IF has_dna THEN 1 ELSE 0]
    /\ contents = <<>>
    /\ response = NoResponse

NextLengths == GetConfidence

SpecLengths == InitLengths /\ [][NextLengths]_vars

(***************************************************************************)
(* SpecMarkers: one call of calculate_detection_score on a text made of    *)
(* phrases that the sub-scorers look for                                   *)
(***************************************************************************)
\* Each part carries the markers of one kind: the two phrases "in conclusion"
\* and "furthermore", four more generic phrases, six specific-marker
\* categories, a percentage, four natural and four AI-style transitions.
MarkerParts ==
    <<"in conclusion we act, furthermore we win. ",
      "Going forward, as we all know, it goes without saying, at the end of the day. ",
      "On Monday 5 May 2024, exactly 3.5 said \"no\". ",
      "up 50%off this year. ",
      "But look, anyway, it is still fine. ",
      "Moreover, hence, consequently, subsequently. ">>

\* the parts whose index is in S, in the order of MarkerParts
RECURSIVE JoinParts(_, _)
JoinParts(S, i) ==
    IF i > Len(MarkerParts) THEN ""
    ELSE (IF i \in S THEN MarkerParts[i] ELSE "") \o JoinParts(S, i + 1)

GenericParagraph ==
    "in today's world it goes without saying that going forward as we all know "
    \o "at the end of the day furthermore moreover additionally"

MarkerSentences ==
    {"Say \"in conclusion\" and furthermore stop. ",
     "We ship today. It works.",
     "We ship the new build to all of our users today. It works.",
     "we ship today. It works.",
     "Have you ever tried? It works.",
     "We ship today. Let me know what you think.",
     "Sales are up 50% this year.",
     "Sales are up 50%",
     "Sales are up 5%.",
     "On Monday and Tuesday, in 2024 and 2025, exactly 3.5 or 4.5. In conclusion, in conclusion. ",
     "I also agree.",
     "Press the button.",
     "With enthusiasm we go.",
     "So, so, so it goes. ",
     "It is fine.",
     "I love this! Have you ever wondered why? Honestly, it's simple.",
     "Frankly no.",
     "Is it simple?",
     "Is it simple?\n",
     "Really! Is it?\n",
     GenericParagraph \o "\n\n" \o GenericParagraph \o "\n\n" \o GenericParagraph,
     "Why? Because.",
     "Our plan, my plan: we actually, literally, seriously, frankly, honestly mean it! Do I?"}

MarkerTexts ==
    {JoinParts(S, 1) : S \in SUBSET (1..Len(MarkerParts))} \cup MarkerSentences

MarkerProfiles ==
    {PyNone,
     Examples(PyList(<<PyStr("Honestly"), PyStr("we must"), PyStr("wondered why")>>)),
     Examples(PyList(<<PyInt(1), PyStr("Why"), PyStr("why"), PyStr("")>>))}

InitMarkers ==
    /\ text \in MarkerTexts
    /\ voice_dna \in MarkerProfiles
    /\ result = NotCalled
    /\ CloneIdle
    /\ ServicesIdle

NextMarkers == Score

SpecMarkers == InitMarkers /\ [][NextMarkers]_vars

(***************************************************************************)
(* Texts of a given number of words and of distinct words                  *)
(***************************************************************************)
MaxWords == 221
Letters == "abcdefghijklmnopqrstuvwxyz"

\* the i-th of the two-letter words aa, ab, ..., az, ba, ...
TwoLetterWord(i) ==
    Char(Letters, ((i - 1) \div 26) + 1) \o Char(Letters, ((i - 1) % 26) + 1)

\* words lo..hi of a text whose first d words are distinct and whose other
\* words repeat the first one
RECURSIVE WordsText(_, _, _)
WordsText(lo, hi, d) ==
    IF lo > hi THEN ""
    ELSE IF lo = hi THEN TwoLetterWord(IF lo <= d THEN lo ELSE 1)
    ELSE LET m == (lo + hi) \div 2
         IN  WordsText(lo, m, d) \o " " \o WordsText(m + 1, hi, d)

WordCounts == {9, 10, 20, 200, 201, 208, MaxWords}

\* the numbers of distinct words next to the thresholds of a text of n words
DistinctCounts(n) ==
    {d \in 1..n : \E k \in 4..7 : \E b \in {10, 13} : \E e \in {0, 1} :
        d = ((k * n) \div b) + e}

VocabularyTexts ==
    UNION {{WordsText(1, n, d) : d \in DistinctCounts(n)} : n \in WordCounts}

InitVocabulary ==
    /\ text \in VocabularyTexts
    /\ voice_dna = PyNone
    /\ result = NotCalled
    /\ CloneIdle
    /\ ServicesIdle

NextVocabulary == Score

SpecVocabulary == InitVocabulary /\ [][NextVocabulary]_vars

(***************************************************************************)
(* Texts of sentences of given numbers of words                            *)
(***************************************************************************)
MaxSentences == 5
MaxSentenceWords == 9

\* the ascending lists of at most MaxSentences word counts
SentenceLengths ==
    {ls \in UNION {[1..n -> 1..MaxSentenceWords] : n \in 1..MaxSentences} :
        \A i \in 1..(Len(ls) - 1) : ls[i] <= ls[i + 1]}

RECURSIVE SentenceOf(_)
SentenceOf(c) == IF c = 1 THEN "a." ELSE "a " \o SentenceOf(c - 1)

RECURSIVE SentencesText(_)
SentencesText(ls) ==
    IF Len(ls) = 0 THEN ""
    ELSE IF Len(ls) = 1 THEN SentenceOf(ls[1])
    ELSE SentenceOf(Head(ls)) \o " " \o SentencesText(Tail(ls))

SentenceTexts == {SentencesText(ls) : ls \in SentenceLengths}

InitSentences ==
    /\ text \in SentenceTexts
    /\ voice_dna = PyNone
    /\ result = NotCalled
    /\ CloneIdle
    /\ ServicesIdle

NextSentences == Score

SpecSentences == InitSentences /\ [][NextSentences]_vars

(***************************************************************************)
(* Texts of several paragraphs                                             *)
(***************************************************************************)
MaxParagraphs == 3

ParagraphKinds ==
    <<"One two.",
      "one more time",
      "Two is here",
      "- item",
      "1. item",
      "2024 was long: w w w w w w w w w w w w w w w w w w w w w w w">>

RECURSIVE JoinParagraphs(_)
JoinParagraphs(ks) ==
    IF Len(ks) = 0 THEN ""
    ELSE IF Len(ks) = 1 THEN ParagraphKinds[ks[1]]
    ELSE ParagraphKinds[Head(ks)] \o "\n\n" \o JoinParagraphs(Tail(ks))

ParagraphTexts ==
    {JoinParagraphs(ks) :
        ks \in UNION {[1..n -> 1..Len(ParagraphKinds)] : n \in 1..MaxParagraphs}}
    \cup {"a\n\nb\n\nc\n\nd\n\ne\n\nf\n\ng\n\na\n\nA\n\na",
          "a\n\nb\n\nc\n\nd\n\ne\n\nf\n\na\n\na\n\nA\n\na",
          "a\n\nb\n\nc\n\nA",
          "a\n \nA",
          "a\n\n\n\nA",
          "\n\nOne",
          "x\n 2. y",
          "x\n  * y",
          "-5 degrees",
          "12 . x"}

InitParagraphs ==
    /\ text \in ParagraphTexts
    /\ voice_dna = PyNone
    /\ result = NotCalled
    /\ CloneIdle
    /\ ServicesIdle

NextParagraphs == Score

SpecParagraphs == InitParagraphs /\ [][NextParagraphs]_vars

(***************************************************************************)
(* Properties                                                              *)
(***************************************************************************)
DetectionKeys ==
    {"sentence_variety", "vocabulary_diversity", "specificity", "transition_naturalness",
     "opening_closing", "punctuation", "personality", "structure"}

ConfidenceKeys ==
    {"word_count", "sample_count", "content_variety", "length_distribution", "consistency"}

RECURSIVE SumKeys(_, _)
SumKeys(bd, S) ==
    IF S = {} THEN 0
    ELSE LET k == CHOOSE k \in S : TRUE
         IN  bd[k] + SumKeys(bd, S \ {k})

Called == result # NotCalled
ReturnedResult == Called /\ result.raised = "none"
Blank == strip(text) = ""
Recomputed == response.op = "get_confidence" /\ response.status = 200
Generated == response.op = "generate" /\ response.status = 201

C2_ConfidenceScoreInRange ==
    response.op = "get_confidence" =>
        /\ response.status = 200
        /\ response.score \in 0..100
        /\ clone.confidence_score = response.score

C2_FullScoreAccepted ==
    /\ Recomputed
    /\ response.score = 100
    /\ \E r \in BagToSet(samples) : r.word_count = 0

\* C3: a text that is empty or only whitespace gets score 0 and an empty
\* breakdown, whatever the profile, and the call does not raise.
C3_BlankTextScoresZero ==
    (Called /\ Blank) =>
        /\ result.raised = "none"
        /\ result.score = 0
        /\ DOMAIN result.breakdown = {}

C3_WhitespaceWithNullExamples ==
    /\ Called
    /\ text # ""
    /\ Blank
    /\ voice_dna = Examples(PyNone)

\* C4: the breakdown returned for a non-blank text has exactly the eight keys,
\* sentence_variety within 0..20, vocabulary_diversity and specificity within
\* 0..15, and the other five within 0..10.
C4_BreakdownKeysAndRanges ==
    (ReturnedResult /\ ~Blank) =>
        /\ DOMAIN result.breakdown = DetectionKeys
        /\ result.breakdown["sentence_variety"] \in 0..20
        /\ result.breakdown["vocabulary_diversity"] \in 0..15
        /\ result.breakdown["specificity"] \in 0..15
        /\ \A k \in {"transition_naturalness", "opening_closing", "punctuation",
                     "personality", "structure"} : result.breakdown[k] \in 0..10

C4_SpecificityAtLimit ==
    /\ ReturnedResult
    /\ ~Blank
    /\ result.breakdown["specificity"] = 15
    /\ result.breakdown["transition_naturalness"] = 10

\* C5: the total either scorer returns is min(100, sum of the sub-scores of
\* the breakdown it returns), and the confidence total is what the clone stores.
C5_TotalIsCappedSum ==
    /\ ReturnedResult =>
           result.score = Min2(100, SumKeys(result.breakdown, DOMAIN result.breakdown))
    /\ Recomputed =>
           /\ response.score = Min2(100, SumKeys(response.breakdown, ConfidenceKeys))
           /\ clone.confidence_score = response.score

C5_EqualSubScores ==
    /\ Recomputed
    /\ response.breakdown["length_distribution"] = response.breakdown["consistency"]
    /\ response.score > 50

\* C6: calculate_detection_score never raises, and a profile whose examples
\* entry is null or not a sequence scores as a profile without examples does.
C6_NeverRaises ==
    Called =>
        /\ result.raised = "none"
        /\ voice_dna \in {Examples(PyNone), Examples(PyInt(3)), Examples(PyStr("a!"))}
               => result = calculate_detection_score(text, PyNone)

\* C7: two content records generated from the same text under equal DNA data
\* carry the same score and breakdown whatever requests ran in between, and a
\* recomputation of the confidence score that directly follows another one
\* returns the same score and breakdown and leaves the clone as it was.
C7_SameInputSameResult ==
    \A i, j \in DOMAIN contents :
        (/\ contents[i].content_text = contents[j].content_text
         /\ dna_versions[contents[i].dna_version] = dna_versions[contents[j].dna_version])
        => /\ contents[i].detection_score = contents[j].detection_score
           /\ contents[i].detection_breakdown = contents[j].detection_breakdown

C7_RecomputeStable ==
    (Recomputed /\ response'.op = "get_confidence")
        => (response' = response /\ clone' = clone)

C8_StoredScoreIsCurrent ==
    (/\ clone.exists
     /\ response.op \in {"add_sample", "delete_sample", "analyze"}
     /\ response.status \in {200, 201, 204})
    => clone.confidence_score
           = calculate_confidence_score(samples, clone.current_dna_id).stored

\* C9: the record generate_content creates holds the stripped text and the
\* score and breakdown calculate_detection_score gives for that text with the
\* data of the clone's current DNA; the response carries the same three.
C9_StoredDetectionScore ==
    Generated =>
        LET content == contents[response.id]
            expected == calculate_detection_score(content.content_text,
                                                  dna_versions[clone.current_dna_id])
        IN  /\ content.content_text = strip(content.content_text)
            /\ expected.raised = "none"
            /\ content.detection_score = expected.score
            /\ content.detection_breakdown = expected.breakdown
            /\ response.content_text = content.content_text
            /\ response.detection_score = content.detection_score
            /\ response.detection_breakdown = content.detection_breakdown

C9_GeneratedUnderSecondDna ==
    /\ Generated
    /\ clone.current_dna_id = 2
    /\ dna_versions[1] = Examples(PyList(<<>>))
    /\ dna_versions[2] = Examples(PyList(<<PyStr("Honestly"), PyStr("wondered why")>>))
    /\ response.content_text = "Honestly, why?"

\* C10: a new clone starts with confidence_score 0, and recomputing the score
\* of a clone without samples and without DNA returns total 0 and the five
\* keys, each 0, without error.
C10_EmptyCloneScoresZero ==
    /\ response.op = "create_voice_clone" => clone.confidence_score = 0
    /\ (response.op = "get_confidence" /\ samples = EmptyBag /\ clone.current_dna_id = 0)
       => /\ response.status = 200
          /\ response.score = 0
          /\ response.breakdown = [k \in ConfidenceKeys |-> 0]
          /\ clone.confidence_score = 0

C10_EmptyCloneRecomputed ==
    /\ response.op = "get_confidence"
    /\ samples = EmptyBag
    /\ clone.current_dna_id = 0

\* four samples of each source type, 150 words each
TwelveShortSamples == EqualSamples([st \in SourceTypes |-> 4], 150)

TwelveShortSamplesScored ==
    Recomputed /\ samples = TwelveShortSamples /\ clone.current_dna_id = 0

\* C11 (amended): 12 samples of 150 words whose source types alternate among
\* paste, file and url, without DNA, score sample_count 20, word_count 15,
\* content_variety 18 (three source types and the short length class) and
\* consistency 8.
C11_TwelveShortSamples ==
    TwelveShortSamplesScored =>
        /\ response.breakdown["sample_count"] = 20
        /\ response.breakdown["word_count"] = 15
        /\ response.breakdown["content_variety"] = 18
        /\ response.breakdown["consistency"] = 8

C11_TwelveShortSamplesReached ==
    /\ TwelveShortSamplesScored
    /\ sum_words(samples) = 1800
    /\ count_rows(samples) = 12

\* C11 as stated: the same samples score content_variety 15.
C11_ContentVarietyFifteen ==
    TwelveShortSamplesScored =>
        /\ response.breakdown["sample_count"] = 20
        /\ response.breakdown["word_count"] = 15
        /\ response.breakdown["content_variety"] = 15
        /\ response.breakdown["consistency"] = 8

WordTotals == {sum_words(s) : s \in EqualSampleSets}

\* C12: the word_count sub-score never decreases when the summed word count
\* grows, the consistency sub-score with a DNA is at least the one without
\* for the same samples, and 10 samples of 12,000 words with a DNA score
\* strictly higher on both than 2 samples of 300 words without a DNA.
C12_Monotone ==
    Recomputed =>
        LET total == sum_words(samples)
            n == count_rows(samples)
        IN  /\ \A t \in WordTotals :
                /\ t >= total => word_count_score(t) >= response.breakdown["word_count"]
                /\ t <= total => word_count_score(t) <= response.breakdown["word_count"]
            /\ clone.current_dna_id # 0
                   => response.breakdown["consistency"] >= consistency_score(n, FALSE)
            /\ clone.current_dna_id = 0
                   => response.breakdown["consistency"] <= consistency_score(n, TRUE)
            /\ (n = 10 /\ total = 12000 /\ clone.current_dna_id # 0)
                   => /\ response.breakdown["word_count"] > word_count_score(300)
                      /\ response.breakdown["consistency"] > consistency_score(2, FALSE)

C12_TenLongSamplesWithDna ==
    /\ Recomputed
    /\ count_rows(samples) = 10
    /\ sum_words(samples) = 12000
    /\ clone.current_dna_id # 0
    /\ 300 \in WordTotals

\* the number of places at which sub occurs in the lowercased text
Occurrences(t, sub) ==
    Cardinality({k \in 1..(Len(t) - Len(sub) + 1) :
                    SubSeq(lower(t), k, k + Len(sub) - 1) = sub})

\* the text without the first occurrence of sub, everything else unchanged
Without(t, sub) ==
    LET k == find(lower(t), sub, 1)
    IN  IF k = 0 THEN t
        ELSE SubSeq(t, 1, k - 1) \o SubSeq(t, k + Len(sub), Len(t))

\* the occurrence of sub has whitespace or an end of the text on either side
SetOff(t, sub) ==
    LET k == find(lower(t), sub, 1)
    IN  /\ k # 0
        /\ k = 1 \/ Char(t, k - 1) \in Whitespace
        /\ k + Len(sub) > Len(t) \/ Char(t, k + Len(sub)) \in Whitespace

BothPhrasesOnce ==
    /\ ReturnedResult
    /\ Occurrences(text, "in conclusion") = 1
    /\ Occurrences(text, "furthermore") = 1

WithoutPhrases == Without(Without(text, "in conclusion"), "furthermore")

\* C13 (amended): for a text in which "in conclusion" and "furthermore" occur
\* once each, set off by whitespace or the ends of the text, specificity and
\* transition_naturalness are at most those of the text without the two
\* phrases; they are strictly lower unless a limit hides the difference:
\* specificity is equal only at 15 or 0, transition_naturalness only at 10 or 0.
C13_PhrasesLowerUpToLimits ==
    (/\ BothPhrasesOnce
     /\ SetOff(text, "in conclusion")
     /\ SetOff(text, "furthermore"))
    => LET s1 == result.breakdown["specificity"]
           s0 == _score_specificity(WithoutPhrases)
           t1 == result.breakdown["transition_naturalness"]
           t0 == _score_transitions(WithoutPhrases)
       IN  /\ s1 <= s0
           /\ s1 = s0 => (s1 = 15 \/ s0 = 0)
           /\ t1 <= t0
           /\ t1 = t0 => (t1 = 10 \/ t0 = 0)

C13_PhrasesStrictlyLower ==
    /\ BothPhrasesOnce
    /\ SetOff(text, "in conclusion")
    /\ SetOff(text, "furthermore")
    /\ result.breakdown["specificity"] \in 1..14
    /\ result.breakdown["specificity"] < _score_specificity(WithoutPhrases)
    /\ result.breakdown["transition_naturalness"] < _score_transitions(WithoutPhrases)

\* C13 as stated: both sub-scores are strictly lower than those of the text
\* without the two phrases, for every text that holds each phrase once.
C13_PhrasesAlwaysLower ==
    BothPhrasesOnce =>
        /\ result.breakdown["specificity"] < _score_specificity(WithoutPhrases)
        /\ result.breakdown["transition_naturalness"] < _score_transitions(WithoutPhrases)

first_sentence_of(t) == _get_sentences(t)[1]
last_sentence_of(t) ==
    LET sentences == _get_sentences(t)
    IN  IF Len(sentences) > 1 THEN lower(sentences[Len(sentences)]) ELSE ""

\* a scored text with a first sentence that starts with an uppercase letter,
\* does not start with a generic opening, and whose last sentence holds no
\* call to action
PlainCapitalOpening ==
    /\ ReturnedResult
    /\ Len(_get_sentences(text)) > 0
    /\ isupper(Char(first_sentence_of(text), 1))
    /\ \A i \in 1..Len(ai_openings) :
          ~startswith(lower(first_sentence_of(text)), ai_openings[i])
    /\ \A i \in 1..Len(cta_patterns) :
          ~contains(last_sentence_of(text), cta_patterns[i])

\* C14 as stated: a first sentence that begins with an uppercase letter and has
\* fewer than 10 words earns 2 points, so that a text with no generic opening
\* and no call to action scores 7 on opening_closing, and 5 when the first
\* sentence has 10 words or more.
C14_DirectOpeningRewarded ==
    PlainCapitalOpening =>
        result.breakdown["opening_closing"] =
            IF Len(split_ws(first_sentence_of(text))) < 10 THEN 7 ELSE 5

\* the text was scored by the sub-scorers
Scored == ReturnedResult /\ ~Blank

\* the marker categories other than percentages that the text matches
OtherCategories(t) ==
    Bool(search_decimal(lower(t)))
    + Bool(search_words(lower(t), weekdays))
    + Bool(search_words(lower(t), months))
    + Bool(search_year(lower(t)))
    + Bool(search_quoted(lower(t)))
    + Bool(search_words(lower(t), precise_words))

\* the generic phrases that occur in the text, each once however often it occurs
GenericPresent(t) ==
    {i \in 1..Len(generic_phrases) : Occurrences(t, generic_phrases[i]) > 0}

\* C15 as stated: a text containing "up 50% this year" matches the percentages
\* category, so that its specificity counts one category more than the other
\* categories it matches.
C15_PercentageCounted ==
    (ReturnedResult /\ contains(text, "up 50% this year")) =>
        result.breakdown["specificity"] =
            Max2(0, Min2(15, 8 + 2 * (1 + OtherCategories(text))
                               - 2 * Cardinality(GenericPresent(text))))

\* C16: specificity is 8 + 2c - 2g limited to 0..15, where c is the number of
\* marker categories matched and g the number of generic phrases present; a
\* category or phrase that occurs more than once counts once, and the value is
\* one of 0, 2, 4, ..., 14, 15.
C16_SpecificityFormula ==
    Scored =>
        LET c == Bool(search_percentage(lower(text))) + OtherCategories(text)
            g == Cardinality(GenericPresent(text))
        IN  /\ result.breakdown["specificity"] = Max2(0, Min2(15, 8 + 2 * c - 2 * g))
            /\ result.breakdown["specificity"] \in {2 * k : k \in 0..7} \cup {15}

C16_RepeatedPhraseCountedOnce ==
    /\ ReturnedResult
    /\ Occurrences(text, "in conclusion") = 2
    /\ Cardinality(GenericPresent(text)) = 1
    /\ OtherCategories(text) = 4
    /\ result.breakdown["specificity"] = 14

\* the entries of the list that the text uses as words of their own
UsedAsWords(t, list) ==
    {i \in 1..Len(list) : search_words(lower(t), {list[i]})}

\* C17 as stated: transition_naturalness is 5 + 2n - 2a limited to 0..10,
\* where n and a are the numbers of natural and of formal transition words in
\* the text, each counted at most once and only when the word itself is used.
C17_TransitionWordsCounted ==
    Scored =>
        result.breakdown["transition_naturalness"] =
            Max2(0, Min2(10, 5 + 2 * Cardinality(UsedAsWords(text, natural_transitions))
                               - 2 * Cardinality(UsedAsWords(text, ai_transitions))))

EndsWithQuestion(t) == Len(t) >= 1 /\ Char(t, Len(t)) = "?"
QuestionBeforeFinalNewline(t) ==
    Len(t) >= 2 /\ Char(t, Len(t)) = "\n" /\ Char(t, Len(t) - 1) = "?"

\* the personality markers found in the text apart from the question mark
WordAndExclamationMarkers(t) ==
    Cardinality(UsedAsWords(t, personality_words)) + Bool(Occurrences(t, "!") > 0)

\* the example strings of the profile that occur in the text
ExamplesFound(t, dna) ==
    IF dna = PyNone THEN 0
    ELSE LET examples ==
                 dna.items["distinctive_signatures"].items["examples"].items
         IN  Cardinality({i \in 1..Len(examples) :
                             /\ examples[i].type = "str"
                             /\ Occurrences(t, lower(examples[i].value)) > 0
                                \/ examples[i].value = ""})

LoveThis == "I love this! Have you ever wondered why? Honestly, it's simple."

\* C18 (amended): personality is floor(5 + 0.5 m + 2 k) limited to 0..10, where
\* m counts the 11 markers found at least once in the lowercased text, the
\* question mark counting when it is the last character of the text or stands
\* directly before a final newline, and k counts the example strings of the
\* profile that occur in the text case-insensitively (0 without a profile).
\* One marker alone leaves 5, and the text LoveThis scores above 5.
C18_PersonalityFormula ==
    Scored =>
        LET m == WordAndExclamationMarkers(text)
                 + Bool(EndsWithQuestion(text) \/ QuestionBeforeFinalNewline(text))
            k == ExamplesFound(text, voice_dna)
            personality == result.breakdown["personality"]
        IN  /\ personality = Max2(0, Min2(10, 5 + (m \div 2) + 2 * k))
            /\ (m = 1 /\ k = 0) => personality = 5
            /\ text = LoveThis => personality > 5

C18_LoveThisWithoutProfile ==
    /\ Scored
    /\ text = LoveThis
    /\ voice_dna = PyNone
    /\ WordAndExclamationMarkers(text) = 3
    /\ result.breakdown["personality"] = 6

\* C18 as stated: the question mark counts only as the last character of the text.
C18_QuestionOnlyAtEnd ==
    Scored =>
        result.breakdown["personality"] =
            Max2(0, Min2(10, 5 + ((WordAndExclamationMarkers(text)
                                    + Bool(EndsWithQuestion(text))) \div 2)
                               + 2 * ExamplesFound(text, voice_dna)))

\* C19 as stated: with N word tokens and D distinct ones, vocabulary_diversity
\* is 5 when N < 10; otherwise r is D/N, times 1.3 exactly when N > 200, and
\* the score is 15 if r > 0.7, 12 if r > 0.6, 9 if r > 0.5, 6 if r > 0.4, else
\* 3, every comparison strict (r > k/10 is 10 r > k, in thirteenths of D/N when
\* boosted).
C19_VocabularyThresholds ==
    Scored =>
        LET N == Len(_get_words(text))
            D == Cardinality(Range(_get_words(text)))
            b == IF N > 200 THEN 13 ELSE 10
        IN  result.breakdown["vocabulary_diversity"] =
                IF N < 10 THEN 5
                ELSE IF b * D > 7 * N THEN 15
                ELSE IF b * D > 6 * N THEN 12
                ELSE IF b * D > 5 * N THEN 9
                ELSE IF b * D > 4 * N THEN 6
                ELSE 3

\* the numbers of words of the sentences of the text
SentenceWordCounts(t) ==
    [i \in 1..Len(_get_sentences(t)) |-> Len(split_ws(_get_sentences(t)[i]))]

\* C20 as stated: sentence_variety is 5 for fewer than 2 sentences; otherwise,
\* with CV the population standard deviation of the word counts over their
\* mean, it is 20 if CV > 0.5, 17 if CV > 0.4, 14 if CV > 0.3, 10 if CV > 0.2,
\* else 5; the mean is never 0 and sentences of equal length give 5.
\* (With n counts of sum s and sum of squares q, CV > k/10 is
\* 100 (n q - s s) > k k s s.)
C20_SentenceVarietyThresholds ==
    Scored =>
        LET ls == SentenceWordCounts(text)
            n == Len(ls)
            s == SumSeq(ls)
            q == SumSeq([i \in 1..n |-> ls[i] * ls[i]])
            sentence_variety == result.breakdown["sentence_variety"]
        IN  /\ n < 2 => sentence_variety = 5
            /\ n >= 2 =>
                  /\ s > 0
                  /\ sentence_variety =
                        IF 100 * (n * q - s * s) > 25 * s * s THEN 20
                        ELSE IF 100 * (n * q - s * s) > 16 * s * s THEN 17
                        ELSE IF 100 * (n * q - s * s) > 9 * s * s THEN 14
                        ELSE IF 100 * (n * q - s * s) > 4 * s * s THEN 10
                        ELSE 5
                  /\ (\A i \in 1..n : ls[i] = ls[1]) => sentence_variety = 5

\* the paragraphs of the text: its non-blank pieces between empty lines
Paragraphs(t) ==
    SelectSeq([i \in 1..Len(split(t, "\n\n")) |-> strip(split(t, "\n\n")[i])], NonEmpty)

ParagraphWords(t) == {Len(split_ws(Paragraphs(t)[i])) : i \in 1..Len(Paragraphs(t))}

\* the lowercased first words of the paragraphs
FirstWords(t) == {lower(Head(split_ws(Paragraphs(t)[i]))) : i \in 1..Len(Paragraphs(t))}

\* the line, leading whitespace aside, starts with a bullet marker or with
\* digits and a dot
ListLine(l) ==
    LET k == scan(l, 1, Whitespace, FALSE)          \* the first character
        e == scan(l, k, Digits, FALSE)              \* the end of the digits
    IN  \/ Char(l, k) \in {"-", BULLET, "*", ARROW}
        \/ e > k /\ Char(l, e) = "."

HasListLine(t) == \E i \in 1..Len(split(t, "\n")) : ListLine(split(t, "\n")[i])

\* C21: structure is 5, plus 2 when there is more than one paragraph and the
\* longest has over 20 words more than the shortest, plus 2 when some line
\* starts with a bullet marker or a numbered-list pattern, plus 1 when the
\* distinct lowercased first words of the paragraphs are at least 70% of the
\* paragraphs, limited to 0..10; so a single paragraph scores at least 6, and
\* 5 needs two or more paragraphs that share first words.
C21_StructureFormula ==
    Scored =>
        LET n == Len(Paragraphs(text))
            spread == n > 1 /\ MaxOf(ParagraphWords(text)) - MinOf(ParagraphWords(text)) > 20
            varied == 10 * Cardinality(FirstWords(text)) >= 7 * n
            structure == result.breakdown["structure"]
        IN  /\ structure = Max2(0, Min2(10, 5 + 2 * Bool(spread) + 2 * Bool(HasListLine(text))
                                              + Bool(varied)))
            /\ n = 1 => structure >= 6
            /\ structure = 5 => (n >= 2 /\ Cardinality(FirstWords(text)) < n)

C21_SevenOfTenFirstWords ==
    /\ Scored
    /\ Len(Paragraphs(text)) = 10
    /\ Cardinality(FirstWords(text)) = 7
    /\ result.breakdown["structure"] = 6

\* the size buckets short, medium and long that hold a sample
Buckets(rows) ==
    {b \in {"short", "medium", "long"} :
        \E r \in BagToSet(rows) :
            CASE b = "short" -> r.word_count < 200
              [] b = "medium" -> r.word_count \in 200..999
              [] b = "long" -> r.word_count >= 1000}

\* C22: content_variety is min(20, 5 k + 3 b) for k distinct source types
\* among the samples and b of the size buckets short (< 200 words), medium
\* (200 to 999) and long (>= 1000) holding a sample; a bucket or source type
\* counts once however many samples fall in it, and without samples it is 0.
C22_ContentVarietyFormula ==
    Recomputed =>
        LET k == Cardinality({r.source_type : r \in BagToSet(samples)})
            b == Cardinality(Buckets(samples))
        IN  /\ response.breakdown["content_variety"] = Min2(20, 5 * k + 3 * b)
            /\ samples = EmptyBag => response.breakdown["content_variety"] = 0

C22_TwoSamplesInOneBucket ==
    /\ Recomputed
    /\ count_rows(samples) = 4
    /\ Cardinality(BagToSet(samples)) = 2
    /\ Buckets(samples) = {"medium"}
    /\ response.breakdown["content_variety"] = 13

\* C23 as stated: length_distribution is 0 without samples, 3 times the number
\* of samples for 1 or 2 samples, and for 3 or more samples 15 if the
\* population standard deviation s of the word counts is above 500, 12 if
\* s > 200, 8 if s > 100, else 5; it never exceeds 15.  (With n samples of sum
\* t and sum of squares q, s > c is n q - t t > c c n n.)
C23_LengthDistributionThresholds ==
    Recomputed =>
        LET n == count_rows(samples)
            t == sum_words(samples)
            q == sum_squares(samples)
            length_distribution == response.breakdown["length_distribution"]
        IN  /\ length_distribution <= 15
            /\ length_distribution =
                  IF n = 0 THEN 0
                  ELSE IF n < 3 THEN 3 * n
                  ELSE IF n * q - t * t > 250000 * n * n THEN 15
                  ELSE IF n * q - t * t > 40000 * n * n THEN 12
                  ELSE IF n * q - t * t > 10000 * n * n THEN 8
                  ELSE 5

\* C24 as stated: every content record stores the score and the breakdown
\* that calculate_detection_score gives for its current text, with the DNA it
\* was generated under or, after an edit, without a profile.
C24_StoredScoreMatchesText ==
    \A i \in 1..Len(contents) :
        \E profile \in {dna_versions[contents[i].dna_version], PyNone} :
            LET expected == calculate_detection_score(contents[i].content_text, profile)
            IN  /\ expected.raised = "none"
                /\ contents[i].detection_score = expected.score
                /\ contents[i].detection_breakdown = expected.breakdown

\* the result of scoring the text under another profile agrees with the
\* result held on the seven sub-scores other than personality
SameButPersonality(other) ==
    /\ other.raised = "none"
    /\ DOMAIN other.breakdown = DOMAIN result.breakdown
    /\ \A k \in DOMAIN result.breakdown \ {"personality"} :
          other.breakdown[k] = result.breakdown[k]

NotBelow(without) ==
    /\ without.score <= result.score
    /\ \A k \in DOMAIN result.breakdown \cap {"personality"} :
          without.breakdown[k] <= result.breakdown[k]

ScoredUnderProfile == ReturnedResult /\ voice_dna \in MarkerProfiles

\* C25: the profile influences the personality sub-score only: scoring the
\* same text under any other well-formed profile, or under none, gives the same
\* seven other sub-scores; personality and the total with a profile are never
\* below those without one; and the call leaves the profile as it was.
C25_ProfileOnlyInPersonality ==
    /\ [](ScoredUnderProfile =>
            /\ \A p2 \in MarkerProfiles :
                  SameButPersonality(calculate_detection_score(text, p2))
            /\ NotBelow(calculate_detection_score(text, PyNone)))
    /\ [][voice_dna' = voice_dna]_vars

C25_ProfileRaisesPersonality ==
    /\ ScoredUnderProfile
    /\ voice_dna # PyNone
    /\ text = LoveThis
    /\ result.breakdown["personality"] = 10
    /\ _score_personality(text, PyNone).value = 6
    /\ result.score = calculate_detection_score(text, PyNone).score + 4

\* C26: a text that is not blank scores at least 26: sentence_variety is at
\* least 5, vocabulary_diversity at least 3, opening_closing at least 3 (at
\* most one generic opening matches), punctuation, personality and structure
\* at least 5 each; so no total lies strictly between 0 and 26.
C26_FloorOfNonBlankText ==
    ReturnedResult =>
        /\ result.score \notin 1..25
        /\ ~Blank =>
              /\ result.score >= 26
              /\ result.breakdown["sentence_variety"] >= 5
              /\ result.breakdown["vocabulary_diversity"] >= 3
              /\ result.breakdown["opening_closing"] >= 3
              /\ result.breakdown["punctuation"] >= 5
              /\ result.breakdown["personality"] >= 5
              /\ result.breakdown["structure"] >= 5
              /\ Cardinality({i \in 1..Len(ai_openings) :
                     startswith(lower(first_sentence_of(text)), ai_openings[i])}) <= 1

C26_FloorReached ==
    /\ Scored
    /\ result.score = 26
    /\ result.breakdown["opening_closing"] = 3
    /\ result.breakdown["specificity"] = 0
    /\ result.breakdown["transition_naturalness"] = 0

(***************************************************************************)
(* SpecRace: two sample requests on one clone, interleaved step by step    *)
(*                                                                         *)
(* Each request runs the endpoint's three awaits in order: get_by_id loads *)
(* the clone with its samples into the request's session, the sample       *)
(* service inserts or deletes the row, and calculate_confidence_score      *)
(* scores the samples collection of the request's session and stores the   *)
(* result on the clone.                                                    *)
(***************************************************************************)
Requests == {1, 2}

Request(op, sample) ==
    [op |-> op, sample |-> sample, pc |-> "received", loaded |-> EmptyBag, status |-> 0]

SubmittedRequests ==
    {Request("add_sample", Row(st, wc)) : st \in SourceTypes, wc \in SubmittedWordCounts}
        \cup {Request("delete_sample", Row("paste", 150))}

\* vc_service.get_by_id(clone_id, user_id) of either endpoint
request_get_by_id(r) ==
    /\ requests[r].pc = "received"
    /\ requests' = [requests EXCEPT ![r].pc = "loaded", ![r].loaded = samples]
    /\ UNCHANGED <<clone, samples, dna_versions, response>>

\* service.add_sample_from_*(clone_id, ...) or service.delete_sample(sample_id, clone_id)
request_write_change(r) ==
    /\ requests[r].pc = "loaded"
    /\ LET req == requests[r]
           refused ==
               IF req.op = "add_sample"
               THEN IF req.sample.word_count < MIN_SAMPLE_WORDS THEN 400 ELSE 0
               ELSE IF ~BagIn(req.sample, samples) THEN 404 ELSE 0
       IN  IF refused # 0
           THEN /\ requests' = [requests EXCEPT ![r].pc = "done", ![r].status = refused]
                /\ response' = [op |-> req.op, status |-> refused]
                /\ UNCHANGED samples
           ELSE /\ samples' = IF req.op = "add_sample"
                              THEN samples (+) SetToBag({req.sample})
                              ELSE samples (-) SetToBag({req.sample})
                /\ requests' = [requests EXCEPT ![r].pc = "changed"]
                /\ UNCHANGED response
    /\ UNCHANGED <<clone, dna_versions>>

\* vc_service.calculate_confidence_score(clone_id), then the response
request_calculate_confidence_score(r) ==
    /\ requests[r].pc = "changed"
    /\ LET req == requests[r]
           calc == calculate_confidence_score(req.loaded, clone.current_dna_id)
           code == IF req.op = "add_sample" THEN 201 ELSE 204
       IN  /\ clone' = [clone EXCEPT !.confidence_score = calc.stored]
           /\ requests' = [requests EXCEPT ![r].pc = "done", ![r].status = code]
           /\ response' = [op |-> req.op, status |-> code]
    /\ UNCHANGED <<samples, dna_versions>>

\* The clone before the two requests arrive: one or two samples, and the score
\* a GET /confidence stored for them.
InitRace ==
    /\ DetectIdle
    /\ samples \in {SetToBag({Row("paste", 150)}),
                    SetToBag({Row("paste", 150), Row("file", 1500)})}
    /\ dna_versions = <<>>
    /\ clone = [exists |-> TRUE, is_merged |-> FALSE,
                confidence_score |-> calculate_confidence_score(samples, 0).stored,
                current_dna_id |-> 0]
    /\ contents = <<>>
    /\ response = NoResponse
    /\ requests \in [Requests -> SubmittedRequests]
    /\ MergeIdle /\ SettingsIdle /\ PlatformsIdle /\ uuid_count = NoUuids

race_others ==
    <<detect_vars, content_vars, merge_vars, settings_vars, platform_vars, uuid_count>>

RequestGetById ==
    /\ \E r \in Requests : request_get_by_id(r)
    /\ UNCHANGED race_others

RequestWriteChange ==
    /\ \E r \in Requests : request_write_change(r)
    /\ UNCHANGED race_others

RequestCalculateConfidenceScore ==
    /\ \E r \in Requests : request_calculate_confidence_score(r)
    /\ UNCHANGED race_others

NextRace == RequestGetById \/ RequestWriteChange \/ RequestCalculateConfidenceScore

SpecRace == InitRace /\ [][NextRace]_vars

(***************************************************************************)
(* C27: once two concurrent add-sample or delete-sample requests on the    *)
(* same clone have both completed with their change written, the stored    *)
(* confidence_score is the confidence score of the final sample set.       *)
(***************************************************************************)
BothCompleted ==
    /\ requests # NoRequests
    /\ \A r \in Requests : requests[r].pc = "done" /\ requests[r].status \in {201, 204}
    /\ \E r \in Requests : requests[r].op = "add_sample"

C27_ScoreOfFinalSampleSet ==
    BothCompleted =>
        clone.confidence_score
            = calculate_confidence_score(samples, clone.current_dna_id).stored

\* Two add-sample requests have both completed.
C27_TwoAddsCompleted ==
    /\ BothCompleted
    /\ \A r \in Requests : requests[r].op = "add_sample"

(***************************************************************************)
(* SpecMerge: POST /voice-clones/merge on a user's clones                  *)
(***************************************************************************)
MaxSources == 3

dna_elements ==
    {"vocabulary_patterns", "sentence_structure", "paragraph_structure", "tone_markers",
     "rhetorical_devices", "punctuation_habits", "opening_patterns", "closing_patterns",
     "humor_and_personality", "distinctive_signatures"}

\* element_weights.get(element, 0)
weight_get(element_weights, element) ==
    IF element \in DOMAIN element_weights THEN element_weights[element] ELSE 0

RECURSIVE total_weight(_, _)
total_weight(sources, element) ==
    IF sources = <<>> THEN 0
    ELSE weight_get(Head(sources).element_weights, element)
            + total_weight(Tail(sources), element)

\* TRUE when _validate_weights returns, FALSE when it raises BadRequestError
_validate_weights(sources) ==
    \A element \in dna_elements :
        99 <= total_weight(sources, element) /\ total_weight(sources, element) <= 101

RECURSIVE sum_confidence(_)
sum_confidence(source_clones) ==
    IF source_clones = <<>> THEN 0
    ELSE Head(source_clones).confidence_score + sum_confidence(Tail(source_clones))

_calculate_merged_confidence(source_clones) ==
    IF source_clones = <<>> THEN 0
    ELSE sum_confidence(source_clones) \div Len(source_clones)

\* The parameters of build_merge_prompt (ai/prompts/merge.py) and the keywords
\* create_merged_clone passes to it.
build_merge_prompt_parameters == {"source_dnas", "source_names", "element_weights"}
build_merge_prompt_keywords == {"source_dnas", "source_names", "weights"}

\* A Python call by keywords: it raises TypeError unless the keywords are the parameters.
call_by_keywords(parameters, keywords) ==
    IF keywords = parameters THEN "none" ELSE "TypeError"

\* The fields of the MergeCloneRequest schema and the attributes read from the request.
MergeCloneRequest_fields == {"name", "description", "sources"}
request_attributes == {"sources", "name", "description", "tags"}

\* Reading attributes of a pydantic model raises AttributeError for one that is no field.
read_attributes(fields, attributes) ==
    IF attributes \subseteq fields THEN "none" ELSE "AttributeError"

\* The status the loop over request.sources raises for one source, 0 when it passes.
source_error(user_id, source) ==
    IF \/ source.voice_clone_id \notin DOMAIN voice_clones
       \/ voice_clones[source.voice_clone_id].user_id # user_id
    THEN 404
    ELSE IF voice_clones[source.voice_clone_id].current_dna_id = 0 THEN 400
    ELSE IF voice_clones[source.voice_clone_id].current_dna_id \notin DOMAIN voice_dna_versions
    THEN 400
    ELSE 0

RECURSIVE first_source_error(_, _)
first_source_error(user_id, sources) ==
    IF sources = <<>> THEN 0
    ELSE IF source_error(user_id, Head(sources)) # 0 THEN source_error(user_id, Head(sources))
    ELSE first_source_error(user_id, Tail(sources))

\* MergeService.create_merged_clone behind POST /voice-clones/merge
create_merged_clone(user_id, request, merged_dna) ==
    LET sources == request.sources
        refused ==
            IF Len(sources) < 2 THEN 400
            ELSE IF Len(sources) > 5 THEN 400
            ELSE IF ~_validate_weights(sources) THEN 400
            ELSE first_source_error(user_id, sources)
        source_clones == [i \in 1..Len(sources) |-> voice_clones[sources[i].voice_clone_id]]
        prompt_raised ==
            call_by_keywords(build_merge_prompt_parameters, build_merge_prompt_keywords)
        request_raised == read_attributes(MergeCloneRequest_fields, request_attributes)
        merged_id == Len(voice_clones) + 1
        dna_id == Len(voice_clones) + 1
    IN  /\ merge_request' = request
        /\ IF refused # 0
           THEN /\ response' = [op |-> "create_merged_clone", status |-> refused]
                /\ UNCHANGED <<voice_clones, voice_dna_versions, merge_sources>>
           ELSE IF prompt_raised # "none"
           THEN /\ response' = [op |-> "create_merged_clone", status |-> 500,
                                raised |-> prompt_raised]
                /\ UNCHANGED <<voice_clones, voice_dna_versions, merge_sources>>
           ELSE IF request_raised # "none"
           THEN /\ response' = [op |-> "create_merged_clone", status |-> 500,
                                raised |-> request_raised]
                /\ UNCHANGED <<voice_clones, voice_dna_versions, merge_sources>>
           ELSE /\ voice_clones' =
                       Append(voice_clones,
                              [user_id |-> user_id, is_merged |-> TRUE,
                               confidence_score |->
                                   _calculate_merged_confidence(source_clones),
                               current_dna_id |-> dna_id])
                /\ voice_dna_versions' =
                       (dna_id :> [voice_clone_id |-> merged_id, version |-> 1,
                                   dna_data |-> merged_dna]) @@ voice_dna_versions
                /\ merge_sources' =
                       merge_sources \cup
                           {[id |-> <<merged_id, i>>, merged_clone_id |-> merged_id,
                             source_clone_id |-> sources[i].voice_clone_id,
                             element_weights |-> sources[i].element_weights]
                               : i \in 1..Len(sources)}
                /\ response' = [op |-> "create_merged_clone", status |-> 201,
                                id |-> merged_id]

\* Weights a request gives to one source: the same for every element, one element
\* apart, or one element only.
uniform_weights(weight) == [element \in dna_elements |-> weight]

SubmittedWeights ==
    {uniform_weights(50), uniform_weights(33), uniform_weights(34),
     [uniform_weights(50) EXCEPT !["tone_markers"] = 60]}

SubmittedSources ==
    {[voice_clone_id |-> id, element_weights |-> w] : id \in 1..3, w \in SubmittedWeights}

SixSources == [i \in 1..6 |-> [voice_clone_id |-> 1, element_weights |-> uniform_weights(17)]]

MergeRequests ==
    {[sources |-> sources] :
        sources \in UNION {[1..n -> SubmittedSources] : n \in 1..MaxSources} \cup {SixSources}}

SourceScores == {33, 40}

\* Three clones: the first two are the user's, the second may not be analysed yet,
\* the third may belong to another user.
InitMerge ==
    /\ DetectIdle
    /\ CloneIdle
    /\ RaceIdle /\ SettingsIdle /\ PlatformsIdle /\ uuid_count = NoUuids
    /\ \E scores \in [1..3 -> SourceScores], analysed \in BOOLEAN, owner \in {"me", "other"} :
        /\ voice_clones =
               [i \in 1..3 |->
                   [user_id |-> IF i = 3 THEN owner ELSE "me", is_merged |-> FALSE,
                    confidence_score |-> scores[i],
                    current_dna_id |-> IF i = 2 /\ ~analysed THEN 0 ELSE i]]
        /\ voice_dna_versions =
               [i \in {j \in 1..3 : j # 2 \/ analysed} |->
                   [voice_clone_id |-> i, version |-> 1,
                    dna_data |-> Examples(PyList(<<>>))]]
    /\ merge_sources = {}
    /\ merge_request = NoResponse

MergeVoiceClones ==
    /\ merge_request = NoResponse
    /\ \E request \in MergeRequests : \E merged_dna \in AnalysisOutputs :
           create_merged_clone("me", request, merged_dna)
    /\ UNCHANGED <<detect_vars, clone, samples, dna_versions, content_vars, race_vars,
                   settings_vars, platform_vars, uuid_count>>

NextMerge == MergeVoiceClones

SpecMerge == InitMerge /\ [][NextMerge]_vars

(***************************************************************************)
(* C28: create_merged_clone, called with 2 to 5 analysed sources of the    *)
(* user and weights that sum to between 99 and 101 for each of the ten     *)
(* DNA elements, returns a newly created clone with is_merged true, a DNA  *)
(* version numbered 1 that is its current DNA, one merge-source record per *)
(* source and the rounded-down average of the sources' confidence scores.  *)
(***************************************************************************)
AcceptableMerge ==
    /\ merge_request # NoResponse
    /\ Len(merge_request.sources) \in 2..5
    /\ _validate_weights(merge_request.sources)
    /\ \A i \in 1..Len(merge_request.sources) :
        LET id == merge_request.sources[i].voice_clone_id
        IN  /\ id \in 1..3
            /\ voice_clones[id].user_id = "me"
            /\ voice_clones[id].current_dna_id # 0

C28_MergedCloneCreated ==
    AcceptableMerge =>
        /\ response.status = 201
        /\ response.id \in DOMAIN voice_clones
        /\ LET merged == voice_clones[response.id]
               sources == merge_request.sources
           IN  /\ response.id \notin 1..3
               /\ merged.is_merged
               /\ merged.current_dna_id \in DOMAIN voice_dna_versions
               /\ voice_dna_versions[merged.current_dna_id].version = 1
               /\ voice_dna_versions[merged.current_dna_id].voice_clone_id = response.id
               /\ Cardinality({m \in merge_sources : m.merged_clone_id = response.id})
                      = Len(sources)
               /\ merged.confidence_score =
                      SumSeq([i \in 1..Len(sources) |->
                                 voice_clones[sources[i].voice_clone_id].confidence_score])
                          \div Len(sources)

(***************************************************************************)
(* SpecSettings: the methodology settings of one user and their history    *)
(***************************************************************************)
MAX_HISTORY_VERSIONS == 10
MaxVersions == 11

\* Stand-ins for the two default texts of models/settings.py.
DEFAULT_VOICE_CLONING_INSTRUCTIONS == "Analyze the provided writing samples"
DEFAULT_ANTI_AI_GUIDELINES == "When generating content"

SubmittedContents == {"Be brief."}

\* The row get_settings returns: the user's row, or the defaults it creates.
get_settings ==
    IF settings.exists
    THEN settings
    ELSE [exists |-> TRUE,
          voice_cloning_instructions |-> DEFAULT_VOICE_CLONING_INSTRUCTIONS,
          anti_ai_guidelines |-> DEFAULT_ANTI_AI_GUIDELINES]

history_of(rows, setting_type) == {h \in rows : h.setting_type = setting_type}

\* select(func.max(SettingsHistory.version)) ... result.scalar() or 0
max_version(rows) ==
    IF rows = {} THEN 0 ELSE MaxOf({h.version : h \in rows})

\* The rows a deletion with this comparison removes once the limit is passed.
old_versions_below(rows, new_version) ==
    IF new_version > MAX_HISTORY_VERSIONS
    THEN {h \in rows : h.version < new_version - MAX_HISTORY_VERSIONS}
    ELSE {}

\* The rows "Delete old versions beyond the limit" removes.
old_versions(rows, new_version) ==
    IF new_version > MAX_HISTORY_VERSIONS
    THEN {h \in rows : h.version <= new_version - MAX_HISTORY_VERSIONS}
    ELSE {}

_save_history(setting_type, content) ==
    LET new_version == max_version(history_of(settings_history, setting_type)) + 1
        history == [id |-> <<setting_type, uuid_count[setting_type] + 1>>,
                    setting_type |-> setting_type,
                    content |-> content, version |-> new_version]
        added == settings_history \cup {history}
    IN  /\ settings_history' =
               added \ old_versions(history_of(added, setting_type), new_version)
        /\ uuid_count' = [uuid_count EXCEPT ![setting_type] = @ + 1]
        /\ assigned' = [assigned EXCEPT ![setting_type] = Append(@, new_version)]

update_voice_cloning_instructions(content) ==
    /\ _save_history("voice_cloning_instructions", get_settings.voice_cloning_instructions)
    /\ settings' = [get_settings EXCEPT !.voice_cloning_instructions = content]

update_anti_ai_guidelines(content) ==
    /\ _save_history("anti_ai_guidelines", get_settings.anti_ai_guidelines)
    /\ settings' = [get_settings EXCEPT !.anti_ai_guidelines = content]

revert_to_version(history_id) ==
    LET found == {h \in settings_history : h.id = history_id}
    IN  IF found = {}
        THEN /\ settings' = get_settings
             /\ response' = [op |-> "revert_to_version", status |-> 404]
             /\ UNCHANGED <<settings_history, assigned, uuid_count>>
        ELSE \E history \in found :
                /\ IF history.setting_type = "voice_cloning_instructions"
                   THEN update_voice_cloning_instructions(history.content)
                   ELSE update_anti_ai_guidelines(history.content)
                /\ response' = [op |-> "revert_to_version", status |-> 200]

InitSettings ==
    /\ DetectIdle
    /\ CloneIdle
    /\ ServicesIdle

settings_others ==
    <<detect_vars, clone, samples, dna_versions, content_vars, race_vars, merge_vars,
      platform_vars>>

VersionsLeft == Len(assigned["voice_cloning_instructions"])
                    + Len(assigned["anti_ai_guidelines"]) < MaxVersions

UpdateVoiceCloningInstructions ==
    /\ VersionsLeft
    /\ \E content \in SubmittedContents : update_voice_cloning_instructions(content)
    /\ response' = [op |-> "update_voice_cloning_instructions", status |-> 200]
    /\ UNCHANGED settings_others

UpdateAntiAiGuidelines ==
    /\ VersionsLeft
    /\ \E content \in SubmittedContents : update_anti_ai_guidelines(content)
    /\ response' = [op |-> "update_anti_ai_guidelines", status |-> 200]
    /\ UNCHANGED settings_others

RevertToVersion ==
    /\ VersionsLeft
    /\ \E setting_type \in SettingTypes : \E n \in 1..(uuid_count[setting_type] + 1) :
           revert_to_version(<<setting_type, n>>)
    /\ UNCHANGED settings_others

NextSettings == UpdateVoiceCloningInstructions \/ UpdateAntiAiGuidelines \/ RevertToVersion

SpecSettings == InitSettings /\ [][NextSettings]_vars

(***************************************************************************)
(* C29: after any sequence of update_voice_cloning_instructions,           *)
(* update_anti_ai_guidelines and revert_to_version calls, each setting     *)
(* type has at most 10 history entries, they are the entries with the 10   *)
(* highest version numbers ever assigned for the type, the version numbers *)
(* are consecutive and never reused, and the newest entry holds the value  *)
(* the setting had immediately before the latest update.                   *)
(***************************************************************************)
Versions(setting_type) ==
    {h.version : h \in history_of(settings_history, setting_type)}

HighestAssigned(setting_type) ==
    LET ever == Range(assigned[setting_type])
    IN  {v \in ever : Cardinality({w \in ever : w > v}) < 10}

HistoryKept(setting_type) ==
    LET rows == history_of(settings_history, setting_type)
        ever == assigned[setting_type]
    IN  /\ Cardinality(rows) <= 10
        /\ Cardinality(rows) = Cardinality(Versions(setting_type))
        /\ Versions(setting_type) = HighestAssigned(setting_type)
        /\ \A i \in 1..Len(ever) : \A j \in 1..Len(ever) :
               /\ (j = i + 1 => ever[j] = ever[i] + 1)
               /\ (i # j => ever[i] # ever[j])
        /\ \A v \in Versions(setting_type) :
               v = MaxOf(Versions(setting_type))
                   \/ v + 1 \in Versions(setting_type)

\* A step that changes the history of the type leaves, as its newest entry, the
\* value the setting had before the step.
NewestHoldsPrevious(setting_type) ==
    history_of(settings_history, setting_type)' # history_of(settings_history, setting_type)
        => \E h \in history_of(settings_history, setting_type)' :
               /\ h.version = MaxOf(Versions(setting_type)')
               /\ h.content = get_settings[setting_type]

C29_HistoryKeepsLastTen ==
    /\ [](\A setting_type \in SettingTypes : HistoryKept(setting_type))
    /\ [][\A setting_type \in SettingTypes : NewestHoldsPrevious(setting_type)]_vars

\* A revert stored the eleventh or a later version of the instructions, so the
\* oldest entries have been deleted.
C29_RevertedPastTheLimit ==
    /\ response.op = "revert_to_version" /\ response.status = 200
    /\ Len(assigned["voice_cloning_instructions"]) > 10
    /\ Cardinality(history_of(settings_history, "voice_cloning_instructions")) = 10
    /\ 1 \notin Versions("voice_cloning_instructions")
    /\ settings.voice_cloning_instructions = DEFAULT_VOICE_CLONING_INSTRUCTIONS

(***************************************************************************)
(* SpecPlatforms: the platform settings of one user                        *)
(***************************************************************************)
MaxCustomPlatforms == 3

\* The platforms _seed_default_platforms creates, in its order.
DefaultPlatforms == <<"linkedin", "twitter", "facebook", "instagram", "email", "blog", "sms">>

\* platform.value.title() for the default platforms
title(platform) ==
    CASE platform = "linkedin" -> "Linkedin"
      [] platform = "twitter" -> "Twitter"
      [] platform = "facebook" -> "Facebook"
      [] platform = "instagram" -> "Instagram"
      [] platform = "email" -> "Email"
      [] platform = "blog" -> "Blog"
      [] platform = "sms" -> "Sms"

\* The display names that occur, in the order ORDER BY display_name puts them.
DisplayNames ==
    <<"Blog", "Email", "Facebook", "Instagram", "LinkedIn Pro", "Linkedin", "Renamed",
      "Sms", "TikTok", "Twitter">>

display_rank(display_name) == CHOOSE i \in 1..Len(DisplayNames) : DisplayNames[i] = display_name

\* ORDER BY is_default DESC, display_name
sorts_before(a, b) ==
    \/ a.is_default /\ ~b.is_default
    \/ a.is_default = b.is_default /\ display_rank(a.display_name) < display_rank(b.display_name)

\* The lists the ordered query can return: rows the ordering does not separate come
\* in any order.
RECURSIVE ordered(_)
ordered(rows) ==
    IF rows = {} THEN {<<>>}
    ELSE UNION {{<<r>> \o rest : rest \in ordered(rows \ {r})} :
                    r \in {m \in rows : \A other \in rows : ~sorts_before(other, m)}}

\* Stand-in for the texts of DEFAULT_PLATFORM_PRACTICES.
DEFAULT_PLATFORM_PRACTICES == "Best Practices"

\* The rows _seed_default_platforms adds.
_seed_default_platforms ==
    {[id |-> <<"platform_settings", uuid_count["platform_settings"] + i>>,
      platform |-> DefaultPlatforms[i], display_name |-> title(DefaultPlatforms[i]),
      best_practices |-> DEFAULT_PLATFORM_PRACTICES, is_default |-> TRUE]
        : i \in 1..Len(DefaultPlatforms)}

\* "if not settings": the user has no platform settings at all.
seeding_needed(rows) == rows = {}

\* GET /settings/platforms
get_all ==
    IF seeding_needed(platforms)
    THEN /\ platforms' = platforms \cup _seed_default_platforms
         /\ uuid_count' = [uuid_count EXCEPT !["platform_settings"] = @ + Len(DefaultPlatforms)]
         /\ \E settings_list \in ordered(platforms') :
                response' = [op |-> "get_all", status |-> 200, settings |-> settings_list]
    ELSE /\ \E settings_list \in ordered(platforms) :
                response' = [op |-> "get_all", status |-> 200, settings |-> settings_list]
         /\ UNCHANGED <<platforms, uuid_count>>

get_by_platform(platform) == {row \in platforms : row.platform = platform}

\* PUT /settings/platforms/{platform}; "" stands for a field the request leaves out
update(platform, display_name, best_practices) ==
    /\ IF get_by_platform(platform) = {}
       THEN /\ response' = [op |-> "update", status |-> 404]
            /\ UNCHANGED platforms
       ELSE \E row \in get_by_platform(platform) :
               /\ platforms' =
                      (platforms \ {row}) \cup
                          {[row EXCEPT
                              !.display_name =
                                  IF display_name # "" THEN display_name ELSE @,
                              !.best_practices =
                                  IF best_practices # "" THEN best_practices ELSE @]}
               /\ response' = [op |-> "update", status |-> 200]
    /\ UNCHANGED uuid_count

\* POST /settings/platforms
create_custom(platform, display_name, best_practices) ==
    IF get_by_platform(platform) # {}
    THEN /\ response' = [op |-> "create_custom", status |-> 400]
         /\ UNCHANGED <<platforms, uuid_count>>
    ELSE /\ platforms' =
                platforms \cup
                    {[id |-> <<"platform_settings", uuid_count["platform_settings"] + 1>>,
                      platform |-> platform, display_name |-> display_name,
                      best_practices |-> best_practices, is_default |-> FALSE]}
         /\ uuid_count' = [uuid_count EXCEPT !["platform_settings"] = @ + 1]
         /\ response' = [op |-> "create_custom", status |-> 201]

\* DELETE /settings/platforms/{platform_id}
delete_custom(platform_id) ==
    /\ LET found == {row \in platforms : row.id = platform_id}
       IN  IF found = {}
           THEN /\ response' = [op |-> "delete_custom", status |-> 404]
                /\ UNCHANGED platforms
           ELSE \E row \in found :
                   IF row.is_default
                   THEN /\ response' = [op |-> "delete_custom", status |-> 400]
                        /\ UNCHANGED platforms
                   ELSE /\ platforms' = platforms \ {row}
                        /\ response' = [op |-> "delete_custom", status |-> 204]
    /\ UNCHANGED uuid_count

SubmittedPlatforms ==
    {<<"tiktok", "TikTok", "Be on trend.">>, <<"linkedin", "LinkedIn Pro", "Be on trend.">>}

InitPlatforms ==
    /\ DetectIdle
    /\ CloneIdle
    /\ ServicesIdle

platform_others ==
    <<detect_vars, clone, samples, dna_versions, content_vars, race_vars, merge_vars,
      settings_vars>>

GetAll == get_all /\ UNCHANGED platform_others

Update ==
    /\ \E platform \in {"linkedin", "tiktok"} : \E display_name \in {"", "Renamed"} :
       \E best_practices \in {"", "Keep it short."} :
           /\ display_name = "Renamed" => platform = "linkedin"
           /\ update(platform, display_name, best_practices)
    /\ UNCHANGED platform_others

CreateCustom ==
    /\ uuid_count["platform_settings"] < MaxCustomPlatforms
    /\ \E submitted \in SubmittedPlatforms : create_custom(submitted[1], submitted[2], submitted[3])
    /\ UNCHANGED platform_others

DeleteCustom ==
    /\ \E n \in 1..(uuid_count["platform_settings"] + 1) :
           delete_custom(<<"platform_settings", n>>)
    /\ UNCHANGED platform_others

NextPlatforms == GetAll \/ Update \/ CreateCustom \/ DeleteCustom

SpecPlatforms == InitPlatforms /\ [][NextPlatforms]_vars

(***************************************************************************)
(* C30: after any sequence of create_custom, update, delete_custom and     *)
(* get_all calls, the list get_all returns contains all seven default      *)
(* platforms, each exactly once and flagged is_default.                    *)
(***************************************************************************)
C30_DefaultsAlwaysListed ==
    response.op = "get_all" =>
        \A i \in 1..Len(DefaultPlatforms) :
            LET listed == {k \in 1..Len(response.settings) :
                              response.settings[k].platform = DefaultPlatforms[i]}
            IN  /\ Cardinality(listed) = 1
                /\ \A k \in listed : response.settings[k].is_default

====
